---- MODULE Spec2Model ----
(***************************************************************************)
(* Antigravity Ultra: the agent control loop (src/agent/agent.py), the     *)
(* operations of the shared agent as the websocket handlers interleave     *)
(* them (src/api.py), the provider orchestrator (src/models.py) and the    *)
(* streaming of the provider clients (src/huggingface_client.py).          *)
(*                                                                         *)
(* Text is modelled as a sequence of tokens.  The tokens that matter to    *)
(* the directive scanner are                                               *)
(*   "FT"  the characters ```tool        "F"   a bare fence ```             *)
(*   "NL"  a newline                     "SP"  other whitespace            *)
(*   "TXT" a run of ordinary prose                                         *)
(* and every other token is the text of one JSON payload candidate (see    *)
(* JsonTexts).  Optional[T] is a sequence of length at most one.           *)
(***************************************************************************)
EXTENDS Integers, Sequences, FiniteSets, TLC

VARIABLES
    max_iterations,    \* Agent.max_iterations
    status,            \* Agent.status
    conversation,      \* Agent.conversation
    pc,                \* where the running coroutine or generator is suspended
    messages,          \* chat: working message list
    iteration,         \* chat: loop counter
    full_response,     \* chat: text accumulated over the iterations
    current_response,  \* chat: text of the running iteration
    tool_calls,        \* chat: ToolCall objects parsed in this iteration (heap ids)
    idx,               \* position of the running for loop
    tool_results,      \* chat: formatted results of this iteration
    heap,              \* every ToolCall object created during the turn
    exception,         \* the exception that left the running call, if any
    emitted,           \* number of chunks the model has produced in the turn
    trace,             \* events yielded to the caller and calls made, in order
    tasks,             \* per caller of the shared agent: the turn it is suspended in
    started,           \* number of turns begun on the shared agent
    op,                \* the Agent operation whose code ran last
    request,           \* the call made to a provider-facing method
    _available,        \* OllamaClient._available
    returned,          \* the value the running call returned, if it has
    wire,              \* what the provider sends back
    handler,           \* websocket_chat: where the handler of one connection is
    sessions           \* per client object: its httpx sessions created, closed, used

vars == << max_iterations, status, conversation, pc, messages, iteration,
           full_response, current_response, tool_calls, idx, tool_results,
           heap, exception, emitted, trace, tasks, started, op, request,
           _available, returned, wire, handler, sessions >>

\* the state of the shared agent's callers
opsvars == << tasks, started, op >>
\* the state of the provider clients and of the call made to them
providervars == << request, _available, returned, wire >>

(* ------------------------------ bounds -------------------------------- *)

\* largest configured iteration ceiling explored
MaxCeiling == 3
\* most chunks a model produces over one turn
MaxChunks == 4
\* most pieces in a text handed to the directive scanner on its own
MaxPieces == 6

(* --------------------------- basic helpers ----------------------------- *)

None == << >>
Some(x) == << x >>

Max(S) == CHOOSE x \in S : \A y \in S : y <= x

RECURSIVE Concat(_)
\* "".join(seq of texts)
Concat(ss) == IF ss = << >> THEN << >> ELSE Head(ss) \o Concat(Tail(ss))

RECURSIVE Join(_, _)
\* sep.join(seq of texts)
Join(sep, ss) ==
    IF ss = << >> THEN << >>
    ELSE IF Len(ss) = 1 THEN ss[1]
    ELSE ss[1] \o sep \o Join(sep, Tail(ss))

(* ----------------------- JSON payload candidates ----------------------- *)

J_list    == "{\"name\":\"list_directory\",\"arguments\":{\"path\":\"/tmp\"}}"
J_read    == "{\"name\":\"read_file\",\"arguments\":{\"path\":\"/tmp/a\"}}"
J_shell   == "{\"name\":\"execute_shell\",\"arguments\":{\"command\":\"ls\"}}"
J_python  == "{\"name\":\"execute_python\",\"arguments\":{\"code\":\"while True: pass\"}}"
J_unknown == "{\"name\":\"frobnicate\",\"arguments\":{}}"
J_empty   == "{\"name\":\"\",\"arguments\":{}}"
J_noname  == "{\"arguments\":{\"path\":\"/tmp\"}}"
J_noargs  == "{\"name\":\"list_directory\"}"
J_argsarr == "{\"name\":\"read_file\",\"arguments\":[1]}"
J_array   == "[1]"
J_null    == "null"
J_bad     == "{\"name\": "

JsonTexts == { J_list, J_read, J_shell, J_python, J_unknown, J_empty, J_noname,
               J_noargs, J_argsarr, J_array, J_null, J_bad }

\* what json.loads makes of one payload candidate
JsonValue(s) ==
    CASE s = J_list    -> [valid |-> TRUE, isdict |-> TRUE, keys |-> {"name", "arguments"},
                           name |-> "list_directory", arguments |-> "{\"path\":\"/tmp\"}"]
      [] s = J_read    -> [valid |-> TRUE, isdict |-> TRUE, keys |-> {"name", "arguments"},
                           name |-> "read_file", arguments |-> "{\"path\":\"/tmp/a\"}"]
      [] s = J_shell   -> [valid |-> TRUE, isdict |-> TRUE, keys |-> {"name", "arguments"},
                           name |-> "execute_shell", arguments |-> "{\"command\":\"ls\"}"]
      [] s = J_python  -> [valid |-> TRUE, isdict |-> TRUE, keys |-> {"name", "arguments"},
                           name |-> "execute_python",
                           arguments |-> "{\"code\":\"while True: pass\"}"]
      [] s = J_unknown -> [valid |-> TRUE, isdict |-> TRUE, keys |-> {"name", "arguments"},
                           name |-> "frobnicate", arguments |-> "{}"]
      [] s = J_empty   -> [valid |-> TRUE, isdict |-> TRUE, keys |-> {"name", "arguments"},
                           name |-> "", arguments |-> "{}"]
      [] s = J_noname  -> [valid |-> TRUE, isdict |-> TRUE, keys |-> {"arguments"},
                           name |-> "?", arguments |-> "{\"path\":\"/tmp\"}"]
      [] s = J_noargs  -> [valid |-> TRUE, isdict |-> TRUE, keys |-> {"name"},
                           name |-> "list_directory", arguments |-> "?"]
      [] s = J_argsarr -> [valid |-> TRUE, isdict |-> TRUE, keys |-> {"name", "arguments"},
                           name |-> "read_file", arguments |-> "[1]"]
      [] s = J_array   -> [valid |-> TRUE, isdict |-> FALSE, keys |-> {},
                           name |-> "?", arguments |-> "?"]
      [] s = J_null    -> [valid |-> TRUE, isdict |-> FALSE, keys |-> {},
                           name |-> "?", arguments |-> "?"]
      [] OTHER         -> [valid |-> FALSE, isdict |-> FALSE, keys |-> {},
                           name |-> "?", arguments |-> "?"]

\* the argument values that are JSON objects (have a .get)
DictArguments == { "{}", "{\"path\":\"/tmp\"}", "{\"path\":\"/tmp/a\"}", "{\"command\":\"ls\"}",
                   "{\"code\":\"while True: pass\"}" }

(* ------------------------- the directive scanner ----------------------- *)

IsWs(t) == t \in {"SP", "NL"}
\* a token that begins with the three backquotes
IsFence(t) == t \in {"F", "FT"}

\* first position >= i of text that is not whitespace (Len+1 if none)
RECURSIVE WsEnd(_, _)
WsEnd(text, i) ==
    IF i > Len(text) \/ ~IsWs(text[i]) THEN i ELSE WsEnd(text, i + 1)

\* "\n```" starts at q
CloseAt(text, q) ==
    q + 1 <= Len(text) /\ text[q] = "NL" /\ IsFence(text[q + 1])

\* least q >= from with CloseAt(text, q); 0 if there is none
RECURSIVE FirstClose(_, _)
FirstClose(text, from) ==
    IF from >= Len(text) THEN 0
    ELSE IF CloseAt(text, from) THEN from
    ELSE FirstClose(text, from + 1)

\* the match of  ```tool\s*\n(.*?)\n```  anchored at position i:
\* \s* is greedy (the latest newline of the whitespace run is tried first),
\* (.*?) is lazy (the first closing fence after it is taken)
MatchAt(text, i) ==
    IF text[i] # "FT" THEN [found |-> FALSE, payload |-> << >>, last |-> i]
    ELSE
      LET e    == WsEnd(text, i + 1)
          good == { p \in (i + 1)..(e - 1) :
                        text[p] = "NL" /\ FirstClose(text, p + 1) # 0 }
      IN  IF good = {} THEN [found |-> FALSE, payload |-> << >>, last |-> i]
          ELSE LET p == Max(good)
                   q == FirstClose(text, p + 1)
               IN  [found |-> TRUE,
                    payload |-> SubSeq(text, p + 1, q - 1),
                    last |-> q + 1]

\* re.findall(pattern, text, re.DOTALL): the payloads of the non-overlapping
\* matches, left to right
RECURSIVE FindallFrom(_, _)
FindallFrom(text, i) ==
    IF i > Len(text) THEN << >>
    ELSE LET m == MatchAt(text, i)
         IN  IF m.found THEN << m.payload >> \o FindallFrom(text, m.last + 1)
             ELSE FindallFrom(text, i + 1)

Findall(text) == FindallFrom(text, 1)

\* str.strip()
RECURSIVE Strip(_)
Strip(s) ==
    IF s = << >> THEN s
    ELSE IF IsWs(Head(s)) THEN Strip(Tail(s))
    ELSE IF IsWs(s[Len(s)]) THEN Strip(SubSeq(s, 1, Len(s) - 1))
    ELSE s

\* json.loads(match.strip()): a document is one JSON value and nothing else
JsonLoads(match) ==
    LET s == Strip(match)
    IN  IF Len(s) = 1 /\ s[1] \in JsonTexts
        THEN JsonValue(s[1])
        ELSE JsonValue("")

\* dict.get(key, default)
DictGet(d, key, default) ==
    IF key \in d.keys
    THEN (IF key = "name" THEN d.name ELSE d.arguments)
    ELSE default

\* mutant: the try block handles nothing
CaughtByParse_Nothing == { }

\* the exceptions the try block around json.loads handles
CaughtByParse == {"JSONDecodeError"}

\* ToolCall(name=..., arguments=...)
ToolCall(name, arguments) ==
    [name |-> name, arguments |-> arguments, result |-> None]

\* the body of the for loop of _parse_tool_calls, from the matches left
RECURSIVE ParseLoop(_, _)
ParseLoop(matches, acc) ==
    IF matches = << >> THEN [exc |-> None, value |-> acc]
    ELSE LET data == JsonLoads(Head(matches))
         IN  IF ~data.valid
             THEN (IF "JSONDecodeError" \in CaughtByParse
                   THEN ParseLoop(Tail(matches), acc)
                   ELSE [exc |-> Some("JSONDecodeError"), value |-> << >>])
             ELSE IF ~data.isdict
             THEN (IF "AttributeError" \in CaughtByParse
                   THEN ParseLoop(Tail(matches), acc)
                   ELSE [exc |-> Some("AttributeError"), value |-> << >>])
             ELSE ParseLoop(Tail(matches),
                            Append(acc, ToolCall(DictGet(data, "name", ""),
                                                 DictGet(data, "arguments", "{}"))))

\* Agent._parse_tool_calls
ParseToolCalls(text) == ParseLoop(Findall(text), << >>)

(* ------------------------------ messages ------------------------------ *)

\* ChatMessage(role=..., content=...)
ChatMessage(role, content) == [role |-> role, content |-> content]

SYSTEM_PROMPT == << "SYSTEM_PROMPT" >>

\* the text a caller passes to Agent.chat
UserMessage == << "TXT" >>

(* ------------------------------- tools --------------------------------- *)

\* the names _execute_tool dispatches on
KnownTools == { "web_search", "read_file", "write_file", "list_directory",
                "execute_python", "execute_shell" }

\* how a call into a tool implementation can end: FileOpsTool raises
\* (PermissionError, OSError), execute_python lets OSError escape,
\* search_formatted and execute_shell handle their own failures
ExecutorOutcomes(name) ==
    IF name \in {"web_search", "execute_shell"} THEN {"return"}
    ELSE {"return", "raise"}

\* the result text _execute_tool builds from what the tool returned
ToolOutput(name) ==
    CASE name = "web_search"     -> << "No results found for: " >>
      [] name = "read_file"      -> << "TXT" >>
      [] name = "write_file"     -> << "File written: " >>
      [] name = "list_directory" -> << "[DIR] d", "NL", "[FILE] a", "NL", "LONG" >>
      [] name = "execute_python" -> << "Output: ", "NL", "Return code: 0" >>
      [] name = "execute_shell"  -> << "Output: ", "NL" >>
      [] OTHER                   -> << >>

\* except Exception as e: result = f"Error executing {name}: {str(e)}"
ErrorResult(name, e) == << "Error executing ", name, ": ", e >>

\* else: result = f"Unknown tool: {name}"
UnknownResult(name) == << "Unknown tool: ", name >>

\* mutant: the last elif has become the else branch
Dispatch_NoElse(name) == IF name \in KnownTools THEN name ELSE "execute_shell"

\* the branch of the if/elif chain of _execute_tool taken for a name
Dispatch(name) == IF name \in KnownTools THEN name ELSE "unknown"

\* mutant: the assignment is missing
SetResult_Missing(tc, result) == tc

\* tool_call.result = result
SetResult(tc, result) == [tc EXCEPT !.result = Some(result)]

\* event["result"][:500], as websocket_chat cuts a result for display: "LONG"
\* stands for a run of more than 500 characters, and the other tokens of a
\* text stay under 500 characters together
Truncate500(text) ==
    IF \E i \in DOMAIN text : text[i] = "LONG"
    THEN LET i == CHOOSE k \in DOMAIN text :
                     text[k] = "LONG" /\ \A j \in 1..(k - 1) : text[j] # "LONG"
         IN  Append(SubSeq(text, 1, i - 1), "LONG[:n]")
    ELSE text

\* mutant: the result is cut before it is fed back to the model
ResultEntry_Truncated(name, result) ==
    << "Tool '", name, "' result:", "NL" >> \o Truncate500(result)

\* tool_results.append(f"Tool '{tool_call.name}' result:\n{result}")
ResultEntry(name, result) == << "Tool '", name, "' result:", "NL" >> \o result

\* mutant: the results come before the model's own text
ToolRoundMessages_ResultsFirst(response, results) ==
    << ChatMessage("user",
           << "Resultats des outils:", "NL", "NL" >>
           \o Join(<< "NL", "NL" >>, results)
           \o << "NL", "NL", "Continue ta reponse." >>),
       ChatMessage("assistant", response) >>

\* the two synthetic messages appended after a tool round
ToolRoundMessages(response, results) ==
    << ChatMessage("assistant", response),
       ChatMessage("user",
           << "Resultats des outils:", "NL", "NL" >>
           \o Join(<< "NL", "NL" >>, results)
           \o << "NL", "NL", "Continue ta reponse." >>) >>

(* ------------------------------- events -------------------------------- *)

\* one entry of the trace: a yielded event (status, chunk, tool_call,
\* tool_result, done) or a call made by the loop (model_call,
\* _execute_tool, executor); n is the iteration or the ToolCall object
Entry(type, name, data, n) == [type |-> type, name |-> name, data |-> data, n |-> n]

EventTypes == {"status", "chunk", "tool_call", "tool_result", "done"}

\* the events the caller of Agent.chat has received
Yielded(tr) == SelectSeq(tr, LAMBDA e : e.type \in EventTypes)

\* the entries of one type
OfType(tr, t) == SelectSeq(tr, LAMBDA e : e.type = t)

(* ------------------------------ Agent.chat ----------------------------- *)

\* mutant: the loop test lets one pass too many through
LoopTest_OffByOne(it, max) == it <= max

\* while iteration < self.max_iterations
LoopTest(it, max) == it < max

\* mutant: the break is missing
BreakOnNoTools_Never(tcs) == FALSE

\* if not tool_calls: break
BreakOnNoTools(tcs) == tcs = << >>

\* mutant: the list is walked from its end
ForItem_Reversed(tcs, i) == tcs[Len(tcs) + 1 - i]

\* for tool_call in tool_calls: the item of the i-th pass
ForItem(tcs, i) == tcs[i]

\* mutant: only one exception type is handled
CaughtByExecuteTool_Narrow == { "JSONDecodeError" }

\* the exceptions `except Exception` of _execute_tool handles
CaughtByExecuteTool == { "AttributeError", "OSError", "JSONDecodeError", "RuntimeError" }

\* the fragments a model stream delivers: prose and fenced blocks
Block(j) == << "FT", "NL", j, "NL", "F" >>

Chunks == { << "TXT" >>, Block(J_list), Block(J_unknown), Block(J_noname),
            Block(J_bad), Block(J_array) }

\* most callers using the one global agent at the same time
NumCallers == 2
\* most turns begun on the shared agent
MaxTurns == 2

\* the coroutines that call into the global agent (one per websocket
\* connection)
Callers == 1..NumCallers

\* a caller that is not inside a turn
NoTask == [pc |-> "none", messages |-> << >>, iteration |-> 0,
           full_response |-> << >>, current_response |-> << >>]

\* no caller has used the agent yet
OpsIdle ==
    /\ tasks = [c \in Callers |-> NoTask]
    /\ started = 0
    /\ op = None

\* websocket_chat has not been entered for any connection
HandlerIdle ==
    handler = [pc |-> "none", use_agent |-> TRUE, full_response |-> << >>,
               forwarded |-> 0, requests |-> 0]

\* the objects holding an httpx.AsyncClient that shutdown is to release
Clients == { "web_search", "groq", "ollama" }

\* GroqClient.__init__, OllamaClient.__init__, WebSearchTool.__init__: each
\* creates its one session, open and unused
SessionsOpen ==
    sessions = [c \in Clients |-> [created |-> 1, closed |-> 0, uses |-> 0]]

\* no provider-facing call has been made: OllamaClient.__init__ leaves
\* _available at None
ProviderIdle ==
    /\ request = None
    /\ _available = None
    /\ returned = None
    /\ wire = << >>

\* Agent.__init__ ; the ceiling comes from config.max_iterations
Init ==
    /\ max_iterations \in 1..MaxCeiling
    /\ status = "idle"
    /\ conversation = << >>
    /\ pc = "idle"
    /\ messages = << >>
    /\ iteration = 0
    /\ full_response = << >>
    /\ current_response = << >>
    /\ tool_calls = << >>
    /\ idx = 0
    /\ tool_results = << >>
    /\ heap = << >>
    /\ exception = None
    /\ emitted = 0
    /\ trace = << >>
    /\ OpsIdle
    /\ HandlerIdle
    /\ SessionsOpen
    /\ ProviderIdle

\* after the while loop: the assistant message is appended to the
\* conversation conv and the generator suspends at `yield done`
LoopExit(conv, it, full, tr) ==
    /\ iteration' = it
    /\ conversation' = Append(conv, ChatMessage("assistant", full))
    /\ status' = "idle"
    /\ trace' = Append(tr, Entry("done", "", full, it))
    /\ pc' = "done"

\* the top of the while loop, reached with counter it: either the next pass
\* starts and suspends at `yield status`, or the loop is left
LoopTop(conv, it, full, tr) ==
    IF LoopTest(it, max_iterations)
    THEN /\ iteration' = it + 1
         /\ conversation' = conv
         /\ status' = "thinking"
         /\ trace' = Append(tr, Entry("status", "thinking", << >>, it + 1))
         /\ pc' = "thinking"
    ELSE LoopExit(conv, it, full, tr)

\* mutant: messages is the conversation list itself
AfterMessagesAppend_Aliased(conv, appended) == conv \o appended

\* self.conversation after messages.append(...): messages was built as a new
\* list [system, *self.conversation], so the conversation is not touched
AfterMessagesAppend(conv, appended) == conv

\* mutant: the tool round leaves the working list as it was
ToolRoundEnd_NothingAppended(resp, results, full, tr) ==
    /\ messages' = messages
    /\ LoopTop(AfterMessagesAppend(conversation, ToolRoundMessages(resp, results)),
               iteration, full, tr)

\* after the for loop: the two synthetic messages are appended and the
\* while loop is tested again
ToolRoundEnd(resp, results, full, tr) ==
    /\ messages' = messages \o ToolRoundMessages(resp, results)
    /\ LoopTop(AfterMessagesAppend(conversation, ToolRoundMessages(resp, results)),
               iteration, full, tr)

\* an exception e leaves the generator
Raise(e, tr) ==
    /\ exception' = Some(e)
    /\ pc' = "raised"
    /\ trace' = tr

\* Agent.chat up to its first yield
Chat ==
    /\ pc = "idle"
    /\ LET conv == Append(conversation, ChatMessage("user", UserMessage))
       IN  /\ messages' = << ChatMessage("system", SYSTEM_PROMPT) >> \o conv
           /\ full_response' = << >>
           /\ LoopTop(conv, 0, << >>, trace)
    /\ UNCHANGED << opsvars, providervars, handler, sessions, max_iterations, current_response, tool_calls, idx,
                    tool_results, heap, exception, emitted >>

\* resumed after `yield status`: orchestrator.chat_stream(messages, model)
ModelCall ==
    /\ pc = "thinking"
    /\ current_response' = << >>
    /\ trace' = Append(trace, Entry("model_call", "", << >>, iteration))
    /\ pc' = "stream"
    /\ UNCHANGED << opsvars, providervars, handler, sessions, max_iterations, status, conversation, messages, iteration,
                    full_response, tool_calls, idx, tool_results, heap,
                    exception, emitted >>

\* the stream delivers a chunk: it is accumulated and relayed
StreamChunk ==
    /\ pc = "stream"
    /\ emitted < MaxChunks
    /\ \E c \in Chunks :
         /\ current_response' = current_response \o c
         /\ trace' = Append(trace, Entry("chunk", "", c, iteration))
    /\ emitted' = emitted + 1
    /\ UNCHANGED << opsvars, providervars, handler, sessions, max_iterations, status, conversation, pc, messages,
                    iteration, full_response, tool_calls, idx, tool_results,
                    heap, exception >>

\* mutant: the loop over the stream is wrapped in try/except Exception
CaughtByChat_All == { "RuntimeError" }

\* the exceptions Agent.chat handles around the stream: there is no try
CaughtByChat == { }

\* the stream raises: the exception leaves the generator
StreamRaise ==
    /\ pc = "stream"
    /\ IF "RuntimeError" \in CaughtByChat
       THEN \* handled: the loop is left with the text received so far
            /\ full_response' = full_response \o current_response
            /\ LoopExit(conversation, iteration,
                        full_response \o current_response, trace)
            /\ UNCHANGED exception
       ELSE /\ Raise("RuntimeError", trace)
            /\ UNCHANGED << status, conversation, iteration, full_response >>
    /\ UNCHANGED << opsvars, providervars, handler, sessions, max_iterations, messages, current_response, tool_calls,
                    idx, tool_results, heap, emitted >>

\* mutant: the text of the last iteration replaces the earlier ones
Accumulate_LastOnly(full, current) == current

\* full_response += current_response
Accumulate(full, current) == full \o current

\* the stream ends: the text is added to full_response and scanned for
\* directives; the generator runs on to its next yield
StreamEnd ==
    /\ pc = "stream"
    /\ full_response' = Accumulate(full_response, current_response)
    /\ LET parsed == ParseToolCalls(current_response)
           full   == Accumulate(full_response, current_response)
           tr     == Append(trace, Entry("_parse_tool_calls", "",
                                         current_response, iteration))
       IN  IF parsed.exc # None
           THEN \* the exception of _parse_tool_calls is not handled
                /\ Raise(parsed.exc[1], tr)
                /\ UNCHANGED << status, conversation, messages, iteration,
                                tool_calls, idx, tool_results, heap >>
           ELSE IF BreakOnNoTools(parsed.value)
           THEN /\ LoopExit(conversation, iteration, full, tr)
                /\ tool_calls' = << >>
                /\ UNCHANGED << messages, idx, tool_results, heap, exception >>
           ELSE IF parsed.value = << >>
           THEN \* a for loop over no item
                /\ tool_calls' = << >>
                /\ tool_results' = << >>
                /\ ToolRoundEnd(current_response, << >>, full, tr)
                /\ UNCHANGED << idx, heap, exception >>
           ELSE \* the for loop starts and suspends at `yield tool_call`
                LET ids == [k \in 1..Len(parsed.value) |-> Len(heap) + k]
                    hp  == heap \o parsed.value
                    id  == ForItem(ids, 1)
                IN  /\ heap' = hp
                    /\ tool_calls' = ids
                    /\ status' = "tool_calling"
                    /\ tool_results' = << >>
                    /\ idx' = 1
                    /\ trace' = Append(tr, Entry("tool_call", hp[id].name,
                                                 << hp[id].arguments >>, id))
                    /\ pc' = "tool_call"
                    /\ UNCHANGED << conversation, messages, iteration, exception >>
    /\ UNCHANGED << opsvars, providervars, handler, sessions, max_iterations, current_response, emitted >>

\* the end of one _execute_tool call with result r, and the rest of the
\* loop body up to `yield tool_result`
Finish(id, r, tr) ==
    /\ heap' = [heap EXCEPT ![id] = SetResult(heap[id], r)]
    /\ tool_results' = Append(tool_results, ResultEntry(heap[id].name, r))
    /\ trace' = Append(tr, Entry("tool_result", heap[id].name, r, id))
    /\ pc' = "tool_result"
    /\ UNCHANGED exception

\* an exception e raised inside the try block of _execute_tool
Except(id, e, tr) ==
    IF e \in CaughtByExecuteTool
    THEN Finish(id, ErrorResult(heap[id].name, e), tr)
    ELSE Raise(e, tr) /\ UNCHANGED << heap, tool_results >>

\* resumed after `yield tool_call`: _execute_tool(tool_call) up to the call
\* into the tool implementation, or to its end when none is called
ExecuteTool ==
    /\ pc = "tool_call"
    /\ LET id == ForItem(tool_calls, idx)
           tc == heap[id]
           tr == Append(trace, Entry("_execute_tool", tc.name, << >>, id))
       IN  IF Dispatch(tc.name) = "unknown"
           THEN Finish(id, UnknownResult(tc.name), tr)
           ELSE IF tc.arguments \notin DictArguments
           THEN \* args.get(...) raises AttributeError
                Except(id, "AttributeError", tr)
           ELSE /\ trace' = Append(tr, Entry("executor", Dispatch(tc.name), << >>, id))
                /\ pc' = "exec"
                /\ UNCHANGED << heap, tool_results, exception >>
    /\ UNCHANGED << opsvars, providervars, handler, sessions, max_iterations, status, conversation, messages, iteration,
                    full_response, current_response, tool_calls, idx, emitted >>

\* the tool implementation returns
ExecutorReturns ==
    /\ pc = "exec"
    /\ LET id == ForItem(tool_calls, idx)
       IN  /\ "return" \in ExecutorOutcomes(heap[id].name)
           /\ Finish(id, ToolOutput(heap[id].name), trace)
    /\ UNCHANGED << opsvars, providervars, handler, sessions, max_iterations, status, conversation, messages, iteration,
                    full_response, current_response, tool_calls, idx, emitted >>

\* the tool implementation raises
ExecutorRaises ==
    /\ pc = "exec"
    /\ LET id == ForItem(tool_calls, idx)
       IN  /\ "raise" \in ExecutorOutcomes(heap[id].name)
           /\ Except(id, "OSError", trace)
    /\ UNCHANGED << opsvars, providervars, handler, sessions, max_iterations, status, conversation, messages, iteration,
                    full_response, current_response, tool_calls, idx, emitted >>

\* resumed after `yield tool_result`, items left: the next pass of the for
\* loop, up to `yield tool_call`
NextTool ==
    /\ pc = "tool_result"
    /\ idx < Len(tool_calls)
    /\ idx' = idx + 1
    /\ LET id == ForItem(tool_calls, idx + 1)
       IN  trace' = Append(trace, Entry("tool_call", heap[id].name,
                                        << heap[id].arguments >>, id))
    /\ pc' = "tool_call"
    /\ UNCHANGED << opsvars, providervars, handler, sessions, max_iterations, status, conversation, messages, iteration,
                    full_response, current_response, tool_calls, tool_results,
                    heap, exception, emitted >>

\* resumed after the last `yield tool_result`
EndToolRound ==
    /\ pc = "tool_result"
    /\ idx = Len(tool_calls)
    /\ ToolRoundEnd(current_response, tool_results, full_response, trace)
    /\ UNCHANGED << opsvars, providervars, handler, sessions, max_iterations, full_response, current_response,
                    tool_calls, idx, tool_results, heap, exception, emitted >>

Next ==
    \/ Chat
    \/ ModelCall
    \/ StreamChunk
    \/ StreamRaise
    \/ StreamEnd
    \/ ExecuteTool
    \/ ExecutorReturns
    \/ ExecutorRaises
    \/ NextTool
    \/ EndToolRound

Spec == Init /\ [][Next]_vars

(* ------------------ the directive scanner on its own ------------------- *)

\* the pieces texts are composed of
Pieces == { << "FT", "NL" >>, << "NL", "F" >>, << "TXT" >>, << J_list >>,
            << J_noname >>, << J_bad >>, << J_array >> }

InitParse ==
    /\ max_iterations = 1
    /\ status = "idle"
    /\ conversation = << >>
    /\ pc = "compose"
    /\ messages = << >>
    /\ iteration = 0
    /\ full_response = << >>
    /\ current_response = << >>
    /\ tool_calls = << >>
    /\ idx = 0
    /\ tool_results = << >>
    /\ heap = << >>
    /\ exception = None
    /\ emitted = 0
    /\ trace = << >>
    /\ OpsIdle
    /\ HandlerIdle
    /\ SessionsOpen
    /\ ProviderIdle

\* one more piece of text
AppendPiece ==
    /\ pc = "compose"
    /\ emitted < MaxPieces
    /\ \E p \in Pieces : current_response' = current_response \o p
    /\ emitted' = emitted + 1
    /\ UNCHANGED << opsvars, providervars, handler, sessions, max_iterations, status, conversation, pc, messages,
                    iteration, full_response, tool_calls, idx, tool_results,
                    heap, exception, trace >>

\* self._parse_tool_calls(current_response): the list returned is kept in
\* heap, the exception raised in exception
ParseText ==
    /\ pc = "compose"
    /\ LET parsed == ParseToolCalls(current_response)
       IN  /\ heap' = parsed.value
           /\ exception' = parsed.exc
    /\ pc' = "parsed"
    /\ UNCHANGED << opsvars, providervars, handler, sessions, max_iterations, status, conversation, messages, iteration,
                    full_response, current_response, tool_calls, idx,
                    tool_results, emitted, trace >>

NextParse ==
    \/ AppendPiece
    \/ ParseText

SpecParse == InitParse /\ [][NextParse]_vars

(* ------------------------- derived quantities -------------------------- *)

\* number of orchestrator.chat_stream calls of the turn
ModelCalls == Len(OfType(trace, "model_call"))

\* a block holding a JSON object with both keys
WellFormed(m) ==
    LET d == JsonLoads(m)
    IN  d.valid /\ d.isdict /\ {"name", "arguments"} \subseteq d.keys

\* a block json.loads accepts
JsonValid(m) == JsonLoads(m).valid

\* a block holding a JSON object
JsonObject(m) == JsonLoads(m).valid /\ JsonLoads(m).isdict

\* position of the entry that closes the tool round opened at position i:
\* the next status or done entry (Len + 1 if there is none yet)
RECURSIVE SegEnd(_)
SegEnd(i) ==
    IF i + 1 > Len(trace) THEN i + 1
    ELSE IF trace[i + 1].type \in {"status", "done"} THEN i + 1
    ELSE SegEnd(i + 1)

\* the entries of the tool round after the scan logged at position i, the
\* calls into tool implementations left out
Round(i) ==
    SelectSeq(SubSeq(trace, i + 1, SegEnd(i) - 1), LAMBDA e : e.type # "executor")

\* the turn ended in an exception while a stream was being read
StreamFailed ==
    pc = "raised" /\ trace # << >> /\ trace[Len(trace)].type \in {"model_call", "chunk"}

(* ------------------------------- claims -------------------------------- *)

\* C1: in every turn the iteration counter changes only by one increment per
\* loop pass (each increment is one `status` event), and the number of
\* chat_stream calls never exceeds the counter, which never exceeds
\* max_iterations, whatever the model answers.
C1_IterationBounded ==
    /\ [][iteration' # iteration =>
            /\ iteration' = iteration + 1
            /\ Len(OfType(trace', "status")) = Len(OfType(trace, "status")) + 1]_vars
    /\ [](ModelCalls <= iteration /\ iteration <= max_iterations)

\* C1 witness: a model that emitted directives in every response was cut off
\* at the ceiling
C1_Witness ==
    /\ pc = "done"
    /\ max_iterations >= 2
    /\ ModelCalls = max_iterations
    /\ tool_calls # << >>

C5_SequentialInTextOrder ==
    /\ \A i \in DOMAIN trace :
         (trace[i].type = "_parse_tool_calls" /\ SegEnd(i) > i + 1) =>
           LET blocks == SelectSeq(Findall(trace[i].data), JsonObject)
               seg    == Round(i)
           IN  /\ Len(seg) <= 3 * Len(blocks)
               /\ SegEnd(i) <= Len(trace) => Len(seg) = 3 * Len(blocks)
               /\ \A r \in DOMAIN seg :
                    LET j == (r + 2) \div 3
                        d == JsonLoads(blocks[j])
                    IN  /\ seg[r].type = CASE r % 3 = 1 -> "tool_call"
                                           [] r % 3 = 2 -> "_execute_tool"
                                           [] OTHER     -> "tool_result"
                        /\ seg[r].name = DictGet(d, "name", "")
                        /\ r % 3 = 1 => seg[r].data = << DictGet(d, "arguments", "{}") >>
                        /\ seg[r].n = seg[3 * j - 2].n
                        /\ (r % 3 = 1 /\ r > 3) => seg[r].n > seg[r - 3].n
    /\ \A x \in DOMAIN trace :
         trace[x].type = "executor" =>
           /\ trace[x - 1].type = "_execute_tool" /\ trace[x - 1].n = trace[x].n
           /\ x < Len(trace) =>
                trace[x + 1].type = "tool_result" /\ trace[x + 1].n = trace[x].n

\* C5 witness: an iteration with two blocks of different tools has run and
\* the next model call has been made
C5_Witness ==
    \E i \in DOMAIN trace :
        /\ trace[i].type = "_parse_tool_calls"
        /\ LET blocks == SelectSeq(Findall(trace[i].data), JsonObject)
           IN  /\ Len(blocks) >= 2
               /\ JsonLoads(blocks[1]).name # JsonLoads(blocks[2]).name
        /\ \E y \in DOMAIN trace : y > i /\ trace[y].type = "model_call"

\* C6: a block whose payload json.loads rejects adds no ToolCall and raises
\* nothing: when every block of a text is either rejected by json.loads or
\* holds a JSON object, _parse_tool_calls returns, with one unexecuted
\* ToolCall per object block, in the order of the blocks.
C6_InvalidJsonSkipped ==
    pc = "parsed" =>
        LET ms     == Findall(current_response)
            blocks == SelectSeq(ms, JsonValid)
        IN  (\A k \in DOMAIN blocks : JsonObject(blocks[k])) =>
              /\ exception = None
              /\ Len(heap) = Len(blocks)
              /\ \A k \in DOMAIN blocks :
                    heap[k] = [name |-> DictGet(JsonLoads(blocks[k]), "name", ""),
                               arguments |-> DictGet(JsonLoads(blocks[k]), "arguments", "{}"),
                               result |-> None]

\* C6 witness: a text with a rejected block followed by a well-formed one
C6_Witness ==
    /\ pc = "parsed"
    /\ exception = None
    /\ LET ms == Findall(current_response)
       IN  /\ Len(ms) = 2
           /\ ~JsonValid(ms[1])
           /\ WellFormed(ms[2])
    /\ Len(heap) = 1

\* C8: an exception raised by a tool implementation never leaves
\* Agent.chat: the call into the implementation is followed by the
\* tool_result event of the same ToolCall, whose result is the tool output
\* or the text "Error executing <name>: <error>"; after such an error result
\* the loop goes on with the next tool_call or the next pass, and the
\* generator is never left from inside _execute_tool.
C8_ToolExceptionsRecovered ==
    /\ pc = "raised" =>
          trace[Len(trace)].type \notin {"_execute_tool", "executor", "tool_call"}
    /\ pc = "tool_result" => ENABLED (NextTool \/ EndToolRound)
    /\ \A x \in DOMAIN trace :
         (trace[x].type = "executor" /\ x < Len(trace)) =>
           LET r == trace[x + 1]
           IN  /\ r.type = "tool_result"
               /\ r.n = trace[x].n
               /\ r.data \in { ToolOutput(r.name),
                               << "Error executing ", r.name, ": ", "OSError" >> }
               /\ heap[r.n].result = Some(r.data)
               /\ x + 1 < Len(trace) =>
                    trace[x + 2].type \in {"tool_call", "status", "done"}

\* C8 witness: a tool implementation raised, and the turn went on to another
\* model call
C8_Witness ==
    \E x \in DOMAIN trace :
        /\ trace[x].type = "tool_result"
        /\ trace[x].data = << "Error executing ", trace[x].name, ": ", "OSError" >>
        /\ \E y \in DOMAIN trace : y > x /\ trace[y].type = "model_call"

\* C9: _execute_tool on a name outside the six tools (the empty name too)
\* calls no tool implementation and yields the result text
\* "Unknown tool: <name>", stored in the ToolCall; nothing is raised and
\* the loop goes on.
C9_UnknownTool ==
    \A x \in DOMAIN trace :
        (trace[x].type = "_execute_tool" /\ trace[x].name \notin KnownTools) =>
          /\ x < Len(trace)
          /\ trace[x + 1].type = "tool_result"
          /\ trace[x + 1].n = trace[x].n
          /\ trace[x + 1].data = << "Unknown tool: ", trace[x].name >>
          /\ heap[trace[x].n].result = Some(<< "Unknown tool: ", trace[x].name >>)
          /\ \A y \in DOMAIN trace :
                trace[y].type = "executor" => trace[y].n # trace[x].n
          /\ x + 1 < Len(trace) =>
                trace[x + 2].type \in {"tool_call", "status", "done"}

\* C9 witness: a call with the empty name got its result and a later model
\* call was made
C9_Witness ==
    \E x \in DOMAIN trace :
        /\ trace[x].type = "_execute_tool"
        /\ trace[x].name = ""
        /\ \E y \in DOMAIN trace : y > x /\ trace[y].type = "model_call"

\* C10: a ToolCall is handed to _execute_tool at most once; its result is
\* null exactly as long as that call has not finished, is then the text of
\* its tool_result event, and a ToolCall that has a result never changes
\* again.
C10_ResultSetOnce ==
    /\ [](\A id \in DOMAIN heap :
            LET execs   == { x \in DOMAIN trace :
                               trace[x].type = "_execute_tool" /\ trace[x].n = id }
                results == { x \in DOMAIN trace :
                               trace[x].type = "tool_result" /\ trace[x].n = id }
            IN  /\ Cardinality(execs) <= 1
                /\ Cardinality(results) <= 1
                /\ heap[id].result = None <=> results = {}
                /\ \A x \in results :
                      /\ heap[id].result = Some(trace[x].data)
                      /\ \E y \in execs : y < x)
    /\ [][\A id \in DOMAIN heap :
            heap[id].result # None =>
                id \in DOMAIN heap' /\ heap'[id] = heap[id]]_vars

\* C10 witness: of two ToolCalls of one iteration the first has its result
\* and the second is still waiting
C10_Witness ==
    /\ pc = "tool_call"
    /\ idx = 2
    /\ heap[tool_calls[1]].result # None
    /\ heap[tool_calls[2]].result = None

\* C2, as claimed: a turn whose streams and tools all return ends with
\* `done`, never with an exception, and `done` carries the text of all
\* iterations.
C2_Claim ==
    /\ pc = "raised" => StreamFailed
    /\ pc = "done" =>
         /\ trace[Len(trace)].type = "done"
         /\ trace[Len(trace)].data = full_response
         /\ full_response = Concat([k \in DOMAIN OfType(trace, "chunk") |->
                                        OfType(trace, "chunk")[k].data])

\* C4, as claimed: once response k without a valid directive has followed
\* k-1 responses each holding a valid directive, the turn has made exactly
\* k model calls and k-1 tool rounds.
C4_Claim ==
    LET scans  == OfType(trace, "_parse_tool_calls")
        valid(t) == \E k \in DOMAIN Findall(t) : WellFormed(Findall(t)[k])
        rounds == { i \in DOMAIN trace :
                      /\ trace[i].type = "_parse_tool_calls"
                      /\ i < Len(trace)
                      /\ trace[i + 1].type = "tool_call" }
    IN  \A k \in DOMAIN scans :
          (/\ \A j \in 1..(k - 1) : valid(scans[j].data)
           /\ ~valid(scans[k].data))
          => /\ ModelCalls = k
             /\ Cardinality(rounds) = k - 1

\* C7, as claimed: a block that is malformed in JSON or in schema yields no
\* ToolCall and no event and does not abort the turn: the tool_call events
\* of an iteration are those of its well-formed blocks, and the scan never
\* raises.
C7_Claim ==
    /\ pc = "raised" => trace[Len(trace)].type # "_parse_tool_calls"
    /\ \A i \in DOMAIN trace :
         trace[i].type = "_parse_tool_calls" =>
            Len(OfType(Round(i), "tool_call"))
               <= Len(SelectSeq(Findall(trace[i].data), WellFormed))

\* the model text of the iterations scanned so far, in order
ResponsesText ==
    Concat([k \in DOMAIN OfType(trace, "_parse_tool_calls") |->
                OfType(trace, "_parse_tool_calls")[k].data])

\* C11: the turn adds exactly two messages to Agent.conversation: the user
\* message when it starts and, when it completes, one assistant message
\* holding the model text of all iterations; in between the conversation
\* holds the user message only, so the synthetic messages of the working
\* list never reach it.
C11_TwoMessagesPerTurn ==
    /\ pc = "idle" => conversation = << >>
    /\ pc \in {"thinking", "stream", "tool_call", "exec", "tool_result", "raised"} =>
          conversation = << ChatMessage("user", UserMessage) >>
    /\ pc = "done" =>
          conversation = << ChatMessage("user", UserMessage),
                            ChatMessage("assistant", ResponsesText) >>

\* C11 witness: a turn with a tool round (two synthetic messages in the
\* working list) has completed
C11_Witness ==
    /\ pc = "done"
    /\ Len(messages) >= 4
    /\ ModelCalls >= 2
    /\ Len(conversation) = 2

\* C19: a stream that stops without having ended is an exception that
\* leaves Agent.chat at once; no `done` has been or will be emitted, nothing more runs (no model call, no tool),
\* and the conversation ends with the user message, without an assistant
\* message.
C19_StreamFailurePropagates ==
    /\ [][(/\ pc = "stream"
           /\ pc' # "stream"
           /\ OfType(trace', "_parse_tool_calls") = OfType(trace, "_parse_tool_calls"))
          => /\ pc' = "raised"
             /\ exception' = Some("RuntimeError")
             /\ trace' = trace
             /\ conversation' = conversation]_vars
    /\ [](StreamFailed =>
            /\ exception = Some("RuntimeError")
            /\ OfType(trace, "done") = << >>
            /\ ~ ENABLED Next
            /\ conversation = << ChatMessage("user", UserMessage) >>)

\* C19 witness: the stream of the second iteration raised after a chunk
C19_Witness ==
    /\ StreamFailed
    /\ iteration = 2
    /\ trace[Len(trace)].type = "chunk"

\* C20, as claimed: Agent.status moves only along
\* IDLE -> THINKING -> (TOOL_CALLING -> THINKING)* -> RESPONDING -> IDLE.
C20_Claim ==
    [][status' # status =>
          << status, status' >> \in
              { << "idle", "thinking" >>, << "thinking", "tool_calling" >>,
                << "tool_calling", "thinking" >>, << "thinking", "responding" >>,
                << "tool_calling", "responding" >>, << "responding", "idle" >> }]_vars

(* ---------- the operations of the one global agent, interleaved -------- *)
(* Each websocket connection is served by its own coroutine and all of     *)
(* them call into the global `agent`.  A coroutine runs alone between two  *)
(* awaits or yields; at an await or yield any other coroutine can run.     *)
(* One action below is the code of one operation between two such points.  *)

\* the variables of the single turn followed in detail by Spec
turnvars == << pc, messages, iteration, full_response, current_response,
               tool_calls, idx, tool_results, heap, exception, emitted, trace >>

\* the message text of the n-th turn begun on the agent
UserMessageOf(n) == UserMessage \o << ToString(n) >>

\* the texts a model answers with: plain prose, or one tool directive
Responses == { << "TXT" >>, Block(J_list) }

\* the system prompt of simple_chat
SIMPLE_PROMPT == << "SIMPLE_PROMPT" >>

\* mutant: the message is inserted at the front
ConversationAppend_Front(conv, m) == << m >> \o conv

\* self.conversation.append(m)
ConversationAppend(conv, m) == Append(conv, m)

\* self.conversation = []
Cleared(conv) == << >>

\* the operation whose code has just run
Ran(name, c) == Some([name |-> name, caller |-> c])

InitOps ==
    /\ max_iterations \in 1..MaxCeiling
    /\ status = "idle"
    /\ conversation = << >>
    /\ pc = "idle"
    /\ messages = << >>
    /\ iteration = 0
    /\ full_response = << >>
    /\ current_response = << >>
    /\ tool_calls = << >>
    /\ idx = 0
    /\ tool_results = << >>
    /\ heap = << >>
    /\ exception = None
    /\ emitted = 0
    /\ trace = << >>
    /\ OpsIdle
    /\ HandlerIdle
    /\ SessionsOpen
    /\ ProviderIdle

\* chat of caller c after its while loop: the assistant message is appended
\* and the generator ends after `yield done`
OpsLoopExit(c, full) ==
    /\ conversation' = ConversationAppend(conversation, ChatMessage("assistant", full))
    /\ status' = "idle"
    /\ tasks' = [tasks EXCEPT ![c] = NoTask]

\* chat of caller c at the top of its while loop with counter it
OpsLoopTop(c, msgs, it, full) ==
    IF LoopTest(it, max_iterations)
    THEN /\ status' = "thinking"
         /\ tasks' = [tasks EXCEPT ![c] =
                         [pc |-> "thinking", messages |-> msgs, iteration |-> it + 1,
                          full_response |-> full, current_response |-> << >>]]
         /\ UNCHANGED conversation
    ELSE OpsLoopExit(c, full)

\* agent.chat(message, model) from its call to its first `yield status`
ChatBegins(c) ==
    /\ tasks[c].pc = "none"
    /\ started < MaxTurns
    /\ started' = started + 1
    /\ LET conv == ConversationAppend(conversation,
                       ChatMessage("user", UserMessageOf(started + 1)))
       IN  IF LoopTest(0, max_iterations)
           THEN /\ conversation' = conv
                /\ status' = "thinking"
                /\ tasks' = [tasks EXCEPT ![c] =
                                [pc |-> "thinking",
                                 messages |-> << ChatMessage("system", SYSTEM_PROMPT) >> \o conv,
                                 iteration |-> 1, full_response |-> << >>,
                                 current_response |-> << >>]]
           ELSE /\ conversation' = ConversationAppend(conv, ChatMessage("assistant", << >>))
                /\ status' = "idle"
                /\ UNCHANGED tasks
    /\ op' = Ran("chat", c)
    /\ UNCHANGED << max_iterations, turnvars, providervars, handler, sessions >>

\* chat of caller c from the end of the model's stream to its next yield:
\* the response is scanned, and the turn ends or a tool round starts
ChatResponds(c) ==
    /\ tasks[c].pc = "thinking"
    /\ \E r \in Responses :
          LET full == tasks[c].full_response \o r
              tcs  == ParseToolCalls(r).value
          IN  IF BreakOnNoTools(tcs)
              THEN OpsLoopExit(c, full)
              ELSE /\ status' = "tool_calling"
                   /\ tasks' = [tasks EXCEPT ![c].pc = "tools",
                                             ![c].full_response = full,
                                             ![c].current_response = r]
                   /\ UNCHANGED conversation
    /\ op' = Ran("chat", c)
    /\ UNCHANGED << max_iterations, started, turnvars, providervars, handler, sessions >>

\* chat of caller c from the end of its for loop to its next yield
ChatToolsDone(c) ==
    /\ tasks[c].pc = "tools"
    /\ OpsLoopTop(c,
                  tasks[c].messages \o
                      ToolRoundMessages(tasks[c].current_response,
                          << ResultEntry("list_directory", ToolOutput("list_directory")) >>),
                  tasks[c].iteration, tasks[c].full_response)
    /\ op' = Ran("chat", c)
    /\ UNCHANGED << max_iterations, started, turnvars, providervars, handler, sessions >>

\* chat_stream raises inside chat of caller c: the generator ends there
ChatStreamFails(c) ==
    /\ tasks[c].pc = "thinking"
    /\ tasks' = [tasks EXCEPT ![c] = NoTask]
    /\ op' = Ran("chat", c)
    /\ UNCHANGED << max_iterations, status, conversation, started, turnvars,
                    providervars, handler, sessions >>

\* caller c stops consuming the events (its websocket is gone): the
\* suspended generator is never resumed
ChatAbandoned(c) ==
    /\ tasks[c].pc \in {"thinking", "tools"}
    /\ tasks' = [tasks EXCEPT ![c] = NoTask]
    /\ op' = Ran("chat.aclose", c)
    /\ UNCHANGED << max_iterations, status, conversation, started, turnvars,
                    providervars, handler, sessions >>

\* agent.simple_chat(message, model) up to `await self.orchestrator.chat`
SimpleChatBegins(c) ==
    /\ tasks[c].pc = "none"
    /\ started < MaxTurns
    /\ started' = started + 1
    /\ LET conv == ConversationAppend(conversation,
                       ChatMessage("user", UserMessageOf(started + 1)))
       IN  /\ conversation' = conv
           /\ tasks' = [tasks EXCEPT ![c] =
                           [pc |-> "simple",
                            messages |-> << ChatMessage("system", SIMPLE_PROMPT) >> \o conv,
                            iteration |-> 0, full_response |-> << >>,
                            current_response |-> << >>]]
    /\ op' = Ran("simple_chat", c)
    /\ UNCHANGED << max_iterations, status, turnvars, providervars, handler, sessions >>

\* simple_chat of caller c after the orchestrator returned
SimpleChatReturns(c) ==
    /\ tasks[c].pc = "simple"
    /\ \E r \in Responses :
          conversation' = ConversationAppend(conversation, ChatMessage("assistant", r))
    /\ tasks' = [tasks EXCEPT ![c] = NoTask]
    /\ op' = Ran("simple_chat", c)
    /\ UNCHANGED << max_iterations, status, started, turnvars, providervars, handler, sessions >>

\* the orchestrator raised inside simple_chat of caller c
SimpleChatFails(c) ==
    /\ tasks[c].pc = "simple"
    /\ tasks' = [tasks EXCEPT ![c] = NoTask]
    /\ op' = Ran("simple_chat", c)
    /\ UNCHANGED << max_iterations, status, conversation, started, turnvars,
                    providervars, handler, sessions >>

\* agent.clear_conversation(), called by a caller that is running
ClearConversation(c) ==
    /\ tasks[c].pc = "none"
    /\ conversation' = Cleared(conversation)
    /\ op' = Ran("clear_conversation", c)
    /\ UNCHANGED << max_iterations, status, tasks, started, turnvars, providervars, handler, sessions >>

NextOps ==
    \/ \E c \in Callers : ChatBegins(c)
    \/ \E c \in Callers : ChatResponds(c)
    \/ \E c \in Callers : ChatToolsDone(c)
    \/ \E c \in Callers : ChatStreamFails(c)
    \/ \E c \in Callers : ChatAbandoned(c)
    \/ \E c \in Callers : SimpleChatBegins(c)
    \/ \E c \in Callers : SimpleChatReturns(c)
    \/ \E c \in Callers : SimpleChatFails(c)
    \/ \E c \in Callers : ClearConversation(c)

SpecOps == InitOps /\ [][NextOps]_vars

\* s is an initial segment of t
IsPrefix(s, t) == Len(s) <= Len(t) /\ SubSeq(t, 1, Len(s)) = s

\* the callers inside a turn: begun, and neither ended nor failed
InFlight == { c \in Callers : tasks[c].pc # "none" }

(* C12: across chat, simple_chat and clear_conversation operations the     *)
(* conversation is append-only between clears: a step of any operation     *)
(* other than clear_conversation leaves every message already appended in  *)
(* its place and unchanged (the old conversation is an initial segment of  *)
(* the new one, so its length does not decrease), and a step of            *)
(* clear_conversation leaves the conversation empty.                       *)
C12_AppendOnlyBetweenClears ==
    [][IF op' # None /\ op'[1].name = "clear_conversation"
       THEN conversation' = << >>
       ELSE IsPrefix(conversation, conversation')]_vars

\* a clear has emptied the conversation while a turn begun before it is
\* still in flight, and an earlier turn had completed
C12_Witness ==
    /\ op # None /\ op[1].name = "clear_conversation"
    /\ conversation = << >>
    /\ started >= 2
    /\ InFlight # { }

(* C13: at most one turn is in flight at a time on the agent: no user      *)
(* message is appended to the conversation while another turn has started  *)
(* and not yet appended its assistant message.                             *)
C13_Claim ==
    [][(/\ Len(conversation') = Len(conversation) + 1
        /\ conversation'[Len(conversation')].role = "user")
       => InFlight = { }]_vars

(* ------------- ModelOrchestrator.chat and chat_stream ------------------ *)
(* A model identifier is a sequence of tokens: the prefix "ollama/" is one *)
(* token, the rest of the name another.  The empty identifier is "".       *)

\* most chunks the providers stream back during one call
MaxDeltas == 2

\* config.MODELS: identifier -> ModelInfo (name and provider)
MODELS ==
    [ m \in { << "llama-3.1-70b-versatile" >>, << "llama-3.1-8b-instant" >>,
              << "mixtral-8x7b-32768" >>, << "gemma2-9b-it" >>,
              << "ollama/", "llama3.1" >>, << "ollama/", "mistral" >> } |->
        IF m[1] = "ollama/"
        THEN [name |-> Tail(m), provider |-> "ollama"]
        ELSE [name |-> m, provider |-> "groq"] ]

\* config.default_model
default_model == << "llama-3.1-70b-versatile" >>

\* the values passed as `model`: None, "", registered and unregistered names
ModelArgs ==
    { None, Some(<< >>),
      Some(<< "llama-3.1-70b-versatile" >>), Some(<< "mixtral-8x7b-32768" >>),
      Some(<< "ollama/", "llama3.1" >>), Some(<< "ollama/", "mistral" >>),
      Some(<< "gpt-4" >>), Some(<< "ollama/", "phi3" >>) }

\* model = model or config.default_model
OrDefault(model) ==
    IF model = None \/ model[1] = << >> THEN default_model ELSE model[1]

\* model in MODELS and MODELS[model].provider == "groq"
IsGroqModel(model) == model \in DOMAIN MODELS /\ MODELS[model].provider = "groq"

\* mutant: the prefix is kept
OllamaModel_KeepsPrefix(model) ==
    IF model # << >> /\ model[1] = "ollama/" THEN model ELSE << "llama3.1" >>

\* model.replace("ollama/", "") if model.startswith("ollama/") else "llama3.1"
OllamaModel(model) ==
    IF model # << >> /\ model[1] = "ollama/"
    THEN SelectSeq(model, LAMBDA t : t # "ollama/")
    ELSE << "llama3.1" >>

\* what a call into a provider client can raise: raise_for_status, the
\* transport, the indexing of the decoded body
ProviderExceptions == { "HTTPStatusError", "ConnectError", "KeyError" }

\* mutant: only HTTP errors are caught around the Groq call
CaughtAroundGroq_OnlyHTTP == { "HTTPStatusError" }

\* except Exception around the Groq call, in chat and in chat_stream
CaughtAroundGroq == ProviderExceptions

\* the exceptions caught around the Ollama call: chat has `except Exception`,
\* chat_stream has no try around the Ollama stream
CaughtAroundOllama(method) ==
    IF method = "chat" THEN ProviderExceptions ELSE { }

\* the ModelResponse GroqClient.chat builds from the body it received
GroqResponse(model) ==
    [content |-> << "groq text" >>, model |-> model, tokens_used |-> 1,
     finish_reason |-> "stop"]

\* the ModelResponse OllamaClient.chat builds from the body it received
OllamaResponse(model) ==
    [content |-> << "ollama text" >>, model |-> model, tokens_used |-> 1,
     finish_reason |-> "stop"]

\* the text of the RuntimeError raised when every branch fell through
NoProviderMessage(method) ==
    IF method = "chat" THEN << "No LLM provider available" >>
    ELSE << "No LLM provider available", " for streaming" >>

\* the outcomes of the probe GET /api/tags
ProbeOutcomes == { "200", "500", "ConnectError" }

method == request[1].method

\* the identifier after `model or config.default_model`
Resolved == OrDefault(request[1].model)

\* a call is made on an orchestrator whose OllamaClient may have been
\* probed by an earlier call
InitOrch ==
    /\ max_iterations = 1
    /\ status = "idle"
    /\ conversation = << >>
    /\ pc = "called"
    /\ messages = << >>
    /\ iteration = 0
    /\ full_response = << >>
    /\ current_response = << >>
    /\ tool_calls = << >>
    /\ idx = 0
    /\ tool_results = << >>
    /\ heap = << >>
    /\ exception = None
    /\ emitted = 0
    /\ trace = << >>
    /\ OpsIdle
    /\ HandlerIdle
    /\ SessionsOpen
    /\ request \in { Some([method |-> meth, model |-> m]) :
                        meth \in {"chat", "chat_stream"}, m \in ModelArgs }
    /\ _available \in { None, Some(TRUE), Some(FALSE) }
    /\ returned = None
    /\ wire = << >>

\* the variables the orchestrator does not touch
orchframe == << handler, sessions, max_iterations, status, conversation, messages, iteration,
                full_response, current_response, tool_calls, idx,
                tool_results, heap, opsvars, request, wire >>

\* raise RuntimeError("No LLM provider available...")
RaiseNoProvider(tr) ==
    /\ exception' = Some("RuntimeError")
    /\ trace' = Append(tr, Entry("raise", "orchestrator", NoProviderMessage(method), 0))
    /\ pc' = "failed"

\* after `await self.ollama.is_available()` returned avail
AfterIsAvailable(avail, tr) ==
    IF avail
    THEN /\ trace' = Append(tr, Entry("call", "ollama", OllamaModel(Resolved), 0))
         /\ pc' = "ollama"
         /\ UNCHANGED exception
    ELSE RaiseNoProvider(tr)

\* the call resolves the identifier and tests the registry
OrchEnters ==
    /\ pc = "called"
    /\ IF IsGroqModel(Resolved)
       THEN /\ trace' = Append(trace, Entry("call", "groq", Resolved, 0))
            /\ pc' = "groq"
       ELSE /\ pc' = "is_available"
            /\ UNCHANGED trace
    /\ UNCHANGED << orchframe, exception, emitted, _available, returned >>

\* return await self.groq.chat(...)
GroqChatReturns ==
    /\ pc = "groq"
    /\ method = "chat"
    /\ returned' = Some(GroqResponse(Resolved))
    /\ trace' = Append(trace, Entry("return", "groq", GroqResponse(Resolved).content, 0))
    /\ pc' = "returned"
    /\ UNCHANGED << orchframe, exception, emitted, _available >>

\* the Groq call raises, at its start or in the middle of its stream
\* (raise_for_status comes before the first line is read; the transport
\* and the indexing of a decoded line can fail at any line)
GroqRaises ==
    /\ pc = "groq"
    /\ \E e \in ProviderExceptions :
          /\ emitted > 0 => e # "HTTPStatusError"
          /\ trace' = Append(trace, Entry("raise", "groq", << e >>, 0))
          /\ IF e \in CaughtAroundGroq
             THEN /\ pc' = "is_available"
                  /\ UNCHANGED exception
             ELSE /\ exception' = Some(e)
                  /\ pc' = "failed"
    /\ UNCHANGED << orchframe, emitted, _available, returned >>

\* async for chunk in self.groq.chat_stream(...): yield chunk
GroqStreamChunk ==
    /\ pc = "groq"
    /\ method = "chat_stream"
    /\ emitted < MaxDeltas
    /\ emitted' = emitted + 1
    /\ trace' = Append(trace, Entry("chunk", "groq", << "groq text" >>, emitted + 1))
    /\ UNCHANGED << orchframe, pc, exception, _available, returned >>

\* the Groq stream ends: return
GroqStreamEnds ==
    /\ pc = "groq"
    /\ method = "chat_stream"
    /\ pc' = "returned"
    /\ UNCHANGED << orchframe, trace, exception, emitted, _available, returned >>

\* is_available with a stored answer
IsAvailableCached ==
    /\ pc = "is_available"
    /\ _available # None
    /\ AfterIsAvailable(_available[1], trace)
    /\ UNCHANGED << orchframe, emitted, _available, returned >>

\* is_available with no stored answer: the probe is sent and its outcome kept
IsAvailableProbes ==
    /\ pc = "is_available"
    /\ _available = None
    /\ \E o \in ProbeOutcomes :
          /\ _available' = Some(o = "200")
          /\ AfterIsAvailable(o = "200",
                 Append(trace, Entry("probe", "ollama", << o >>, 0)))
    /\ UNCHANGED << orchframe, emitted, returned >>

\* return await self.ollama.chat(...)
OllamaChatReturns ==
    /\ pc = "ollama"
    /\ method = "chat"
    /\ returned' = Some(OllamaResponse(OllamaModel(Resolved)))
    /\ trace' = Append(trace, Entry("return", "ollama",
                                    OllamaResponse(OllamaModel(Resolved)).content, 0))
    /\ pc' = "returned"
    /\ UNCHANGED << orchframe, exception, emitted, _available >>

\* the Ollama call raises, at its start or in the middle of its stream
OllamaRaises ==
    /\ pc = "ollama"
    /\ \E e \in ProviderExceptions :
          IF e \in CaughtAroundOllama(method)
          THEN RaiseNoProvider(Append(trace, Entry("raise", "ollama", << e >>, 0)))
          ELSE /\ trace' = Append(trace, Entry("raise", "ollama", << e >>, 0))
               /\ exception' = Some(e)
               /\ pc' = "failed"
    /\ UNCHANGED << orchframe, emitted, _available, returned >>

\* async for chunk in self.ollama.chat_stream(...): yield chunk
OllamaStreamChunk ==
    /\ pc = "ollama"
    /\ method = "chat_stream"
    /\ emitted < MaxDeltas
    /\ emitted' = emitted + 1
    /\ trace' = Append(trace, Entry("chunk", "ollama", << "ollama text" >>, emitted + 1))
    /\ UNCHANGED << orchframe, pc, exception, _available, returned >>

\* the Ollama stream ends: return
OllamaStreamEnds ==
    /\ pc = "ollama"
    /\ method = "chat_stream"
    /\ pc' = "returned"
    /\ UNCHANGED << orchframe, trace, exception, emitted, _available, returned >>

NextOrch ==
    \/ OrchEnters
    \/ GroqChatReturns
    \/ GroqRaises
    \/ GroqStreamChunk
    \/ GroqStreamEnds
    \/ IsAvailableCached
    \/ IsAvailableProbes
    \/ OllamaChatReturns
    \/ OllamaRaises
    \/ OllamaStreamChunk
    \/ OllamaStreamEnds

SpecOrch == InitOrch /\ [][NextOrch]_vars

\* the entries of one type made for one provider
Of(type, provider) ==
    SelectSeq(trace, LAMBDA e : e.type = type /\ e.name = provider)

\* the provider was called during this call and the call raised
AttemptedAndFailed(provider) ==
    Of("call", provider) # << >> /\ Of("raise", provider) # << >>

\* the provider was found unavailable during this call: only OllamaClient
\* has an availability test, and a call that failed past it with no Ollama
\* call made was told False by it
FoundUnavailable(provider) ==
    /\ provider = "ollama"
    /\ _available = Some(FALSE)
    /\ Of("call", "ollama") = << >>

(* C14: for a requested model registered under Groq, when the Groq call    *)
(* raises and Ollama is available and succeeds, chat returns exactly the   *)
(* ModelResponse produced by Ollama and raises nothing.  Stated on every   *)
(* chat call for a Groq model whose Groq call raised: it fails only if     *)
(* Ollama was found unavailable or raised in its turn, and once Ollama has *)
(* returned the call has returned that response, the one a call to Ollama  *)
(* alone (with its default model) produces, with no exception.             *)
C14_FallbackReturnsOllama ==
    (/\ method = "chat"
     /\ IsGroqModel(Resolved)
     /\ Of("raise", "groq") # << >>)
    => /\ pc = "failed" => FoundUnavailable("ollama") \/ AttemptedAndFailed("ollama")
       /\ pc = "returned" => Of("return", "ollama") # << >>
       /\ Of("return", "ollama") # << >> =>
             /\ pc = "returned"
             /\ exception = None
             /\ returned = Some(OllamaResponse(<< "llama3.1" >>))

\* Groq raised, the probe found Ollama, and Ollama answered
C14_Witness ==
    /\ method = "chat"
    /\ request[1].model = Some(<< "mixtral-8x7b-32768" >>)
    /\ Of("raise", "groq") # << >>
    /\ Of("probe", "ollama") # << >>
    /\ Of("return", "ollama") # << >>
    /\ pc = "returned"

(* C15: whenever no provider yields a response (each attempted provider    *)
(* raised or was unavailable), chat and chat_stream fail with the          *)
(* RuntimeError "No LLM provider available", and with no other exception   *)
(* type.                                                                   *)
C15_Claim ==
    (pc = "failed" /\ OfType(trace, "chunk") = << >>)
    => /\ exception = Some("RuntimeError")
       /\ trace[Len(trace)].type = "raise"
       /\ trace[Len(trace)].name = "orchestrator"
       /\ trace[Len(trace)].data[1] = "No LLM provider available"

(* C16: for every requested identifier, a chat or chat_stream call fails   *)
(* only if, during that call, each provider client (Groq and Ollama) was   *)
(* either attempted and failed or found unavailable.                       *)
C16_Claim ==
    pc = "failed" =>
        \A provider \in {"groq", "ollama"} :
            AttemptedAndFailed(provider) \/ FoundUnavailable(provider)

\* the entries in which a provider is contacted: calls and probes
Contacts == SelectSeq(trace, LAMBDA e : e.type \in {"call", "probe"})

(* C17: if the requested identifier (or the configured default when none   *)
(* is given) is registered in MODELS under a provider, the first provider  *)
(* call of chat and chat_stream goes to that provider: a Groq model is     *)
(* sent to Groq under its own name before anything else is contacted, and  *)
(* "ollama/<m>" is sent to Ollama under the name <m>, with only the        *)
(* availability probe of Ollama before it.                                 *)
C17_RegisteredProviderFirst ==
    Resolved \in DOMAIN MODELS =>
        LET calls == OfType(trace, "call")
        IN  IF MODELS[Resolved].provider = "groq"
            THEN /\ pc # "called" => Contacts # << >>
                 /\ Contacts # << >> =>
                       /\ Contacts[1].type = "call"
                       /\ Contacts[1].name = "groq"
                       /\ Contacts[1].data = Resolved
            ELSE /\ \A k \in DOMAIN Contacts : Contacts[k].name = "ollama"
                 /\ calls # << >> => calls[1].data = MODELS[Resolved].name

\* "ollama/mistral" has been sent to Ollama as "mistral" after a probe
C17_Witness ==
    /\ request[1].model = Some(<< "ollama/", "mistral" >>)
    /\ Len(Contacts) = 2
    /\ Contacts[2].type = "call"
    /\ Contacts[2].name = "ollama"
    /\ Contacts[2].data = << "mistral" >>

(* -------- streaming by the provider clients, one client at a time ------ *)
(* HuggingFaceClient.chat_stream obtains the whole text from chat and      *)
(* yields it word by word; GroqClient.chat_stream reads the lines of a     *)
(* server-sent event stream and yields the delta contents.                 *)

\* most tokens of a generated text, most lines of an event stream
MaxWire == 4

\* the tokens of a generated text: prose and whitespace
TextTokens == { "a", "b", "SP", "NL" }

\* one line of the event stream: what it starts with, the kind of its
\* payload, and the content of the delta it carries
Line(prefix, payload, content) ==
    [prefix |-> prefix, payload |-> payload, content |-> content]

\* the lines a Groq event stream is made of: deltas with a content, with an
\* empty content and with none, the sentinel, a payload that is not JSON, a
\* JSON payload without choices, and a line that is not a data line
GroqLines ==
    { Line("data: ", "delta", << "a" >>), Line("data: ", "delta", << "SP", "b" >>),
      Line("data: ", "delta", << >>), Line("data: ", "delta_no_content", << >>),
      Line("data: ", "[DONE]", << >>), Line("data: ", "not_json", << >>),
      Line("data: ", "no_choices", << >>), Line("", "comment", << >>) }

RECURSIVE SplitFrom(_, _, _, _)
\* str.split() from position i on: cur is the word being read, acc the
\* words read
SplitFrom(text, i, cur, acc) ==
    IF i > Len(text)
    THEN IF cur = << >> THEN acc ELSE Append(acc, cur)
    ELSE IF IsWs(text[i])
         THEN SplitFrom(text, i + 1, << >>,
                        IF cur = << >> THEN acc ELSE Append(acc, cur))
         ELSE SplitFrom(text, i + 1, Append(cur, text[i]), acc)

\* content.split(): the maximal runs without whitespace
Split(text) == SplitFrom(text, 1, << >>, << >>)

\* word + (" " if i < len(words) - 1 else ""), for the i-th word counted
\* from 1
HFChunk(words, i) == words[i] \o (IF i < Len(words) THEN << "SP" >> ELSE << >>)

\* the ModelResponse HuggingFaceClient.chat builds from generated_text
HFResponse(text) ==
    [content |-> text, model |-> << "HuggingFaceH4/zephyr-7b-beta" >>,
     tokens_used |-> Len(Split(text)), finish_reason |-> "stop"]

\* the text of the chunk chat_stream yields when chat raised
HFErrorChunk ==
    << "Erreur (Tous les modeles gratuits ont echoue): ",
       "All free HuggingFace models failed. Please configure GROQ_API_KEY." >>

StreamMethods == { "HuggingFaceClient.chat_stream", "GroqClient.chat_stream" }

\* chat_stream of one client has been called and the provider has not
\* answered yet
InitStream ==
    /\ max_iterations = 1
    /\ status = "idle"
    /\ conversation = << >>
    /\ pc = "provider"
    /\ messages = << >>
    /\ iteration = 0
    /\ full_response = << >>
    /\ current_response = << >>
    /\ tool_calls = << >>
    /\ idx = 0
    /\ tool_results = << >>
    /\ heap = << >>
    /\ exception = None
    /\ emitted = 0
    /\ trace = << >>
    /\ OpsIdle
    /\ HandlerIdle
    /\ SessionsOpen
    /\ request \in { Some([method |-> meth, model |-> None]) : meth \in StreamMethods }
    /\ _available = None
    /\ returned = None
    /\ wire = << >>

\* the variables the clients' streaming does not touch
streamframe == << handler, sessions, max_iterations, status, conversation, messages, iteration,
                  full_response, current_response, tool_calls, tool_results,
                  heap, emitted, opsvars, request, _available >>

\* the provider produces one more token of its text, or one more line of
\* its event stream
ProviderWrites ==
    /\ pc = "provider"
    /\ Len(wire) < MaxWire
    /\ IF method = "HuggingFaceClient.chat_stream"
       THEN \E t \in TextTokens : wire' = Append(wire, t)
       ELSE \E l \in GroqLines : wire' = Append(wire, l)
    /\ UNCHANGED << streamframe, pc, idx, exception, trace, returned >>

\* response = await self.chat(...); content = response.content;
\* words = content.split()
HFChatReturns ==
    /\ pc = "provider"
    /\ method = "HuggingFaceClient.chat_stream"
    /\ returned' = Some(HFResponse(wire))
    /\ idx' = 0
    /\ pc' = "words"
    /\ UNCHANGED << streamframe, exception, trace, wire >>

\* chat raised (no free model answered): the except branch yields one
\* chunk holding the error text, and the generator ends
HFChatRaises ==
    /\ pc = "provider"
    /\ method = "HuggingFaceClient.chat_stream"
    /\ wire = << >>
    /\ trace' = Append(trace, Entry("chunk", "huggingface", HFErrorChunk, 1))
    /\ pc' = "ended"
    /\ UNCHANGED << streamframe, idx, exception, returned, wire >>

\* for i, word in enumerate(words): yield word + ...
HFYields ==
    /\ pc = "words"
    /\ idx < Len(Split(returned[1].content))
    /\ idx' = idx + 1
    /\ trace' = Append(trace, Entry("chunk", "huggingface",
                                    HFChunk(Split(returned[1].content), idx + 1),
                                    idx + 1))
    /\ UNCHANGED << streamframe, pc, exception, returned, wire >>

\* the for loop over words is over
HFEnds ==
    /\ pc = "words"
    /\ idx = Len(Split(returned[1].content))
    /\ pc' = "ended"
    /\ UNCHANGED << streamframe, idx, exception, trace, returned, wire >>

\* the Groq response has arrived with a success status: its lines are read
GroqOpens ==
    /\ pc = "provider"
    /\ method = "GroqClient.chat_stream"
    /\ idx' = 0
    /\ pc' = "lines"
    /\ UNCHANGED << streamframe, exception, trace, returned, wire >>

\* mutant: the sentinel does not end the loop
BreakOnDone_Never(data) == FALSE

\* if data == "[DONE]": break
BreakOnDone(data) == data = "[DONE]"

\* one pass of `async for line in response.aiter_lines()`
GroqReadsLine ==
    /\ pc = "lines"
    /\ idx < Len(wire)
    /\ idx' = idx + 1
    /\ LET line == wire[idx + 1]
       IN  IF line.prefix # "data: "
           THEN UNCHANGED << pc, exception, trace >>
           ELSE IF BreakOnDone(line.payload)
           THEN pc' = "ended" /\ UNCHANGED << exception, trace >>
           ELSE IF line.payload = "not_json"
           THEN UNCHANGED << pc, exception, trace >>
           ELSE IF line.payload = "no_choices"
           THEN /\ exception' = Some("KeyError")
                /\ pc' = "failed"
                /\ UNCHANGED trace
           ELSE IF line.payload = "delta" /\ line.content # << >>
           THEN /\ trace' = Append(trace, Entry("chunk", "groq", line.content, idx + 1))
                /\ UNCHANGED << pc, exception >>
           ELSE UNCHANGED << pc, exception, trace >>
    /\ UNCHANGED << streamframe, returned, wire >>

\* the event stream is exhausted
GroqEnds ==
    /\ pc = "lines"
    /\ idx = Len(wire)
    /\ pc' = "ended"
    /\ UNCHANGED << streamframe, idx, exception, trace, returned, wire >>

NextStream ==
    \/ ProviderWrites
    \/ HFChatReturns
    \/ HFChatRaises
    \/ HFYields
    \/ HFEnds
    \/ GroqOpens
    \/ GroqReadsLine
    \/ GroqEnds

SpecStream == InitStream /\ [][NextStream]_vars

\* the concatenation of the chunks yielded so far
ChunksText ==
    Concat([k \in DOMAIN OfType(trace, "chunk") |-> OfType(trace, "chunk")[k].data])

\* the positions of the sentinel line on the wire
SentinelAt == { i \in DOMAIN wire : wire[i].prefix = "data: " /\ wire[i].payload = "[DONE]" }

\* the lines that come before the first sentinel
BeforeSentinel(lines) ==
    IF \E i \in DOMAIN lines : i \in SentinelAt
    THEN SubSeq(lines, 1, (CHOOSE i \in DOMAIN lines :
                              i \in SentinelAt /\ \A j \in SentinelAt : i <= j) - 1)
    ELSE lines

\* the concatenation of the delta contents on the wire, up to the sentinel
DeltaContents ==
    LET deltas == SelectSeq(BeforeSentinel(wire),
                            LAMBDA l : l.prefix = "data: " /\ l.payload = "delta")
    IN  Concat([k \in DOMAIN deltas |-> deltas[k].content])

(* C18: for every provider response text (consecutive spaces, newlines,    *)
(* leading or trailing whitespace included), once the stream has ended the *)
(* concatenation of the chunks yielded by HuggingFaceClient.chat_stream    *)
(* equals the text returned by the client's chat, and the concatenation of *)
(* the chunks yielded by GroqClient.chat_stream equals the concatenation   *)
(* of the delta contents on the wire.                                      *)
C18_Claim ==
    pc = "ended" =>
        /\ (method = "HuggingFaceClient.chat_stream" /\ returned # None) =>
              ChunksText = returned[1].content
        /\ method = "GroqClient.chat_stream" => ChunksText = DeltaContents

(* ---------------- OllamaClient.is_available, called repeatedly --------- *)
(* The callers are the coroutines that reach is_available through chat,    *)
(* chat_stream, list_models or get_available_models.  is_available awaits  *)
(* the answer to its probe: between the test of _available and the store   *)
(* of the answer any other coroutine can run.                              *)

\* most calls of is_available made on the client
MaxCalls == 3

InitAvail ==
    /\ max_iterations = 1
    /\ status = "idle"
    /\ conversation = << >>
    /\ pc = "idle"
    /\ messages = << >>
    /\ iteration = 0
    /\ full_response = << >>
    /\ current_response = << >>
    /\ tool_calls = << >>
    /\ idx = 0
    /\ tool_results = << >>
    /\ heap = << >>
    /\ exception = None
    /\ emitted = 0
    /\ trace = << >>
    /\ OpsIdle
    /\ HandlerIdle
    /\ SessionsOpen
    /\ ProviderIdle

\* the variables is_available does not touch
availframe == << handler, sessions, max_iterations, status, conversation, pc, messages, iteration,
                 full_response, current_response, tool_calls, idx,
                 tool_results, heap, exception, emitted, op, request,
                 returned, wire >>

\* caller c enters is_available: a stored answer is returned at once,
\* otherwise the probe is sent and the coroutine waits for its answer
IsAvailableCalled(c) ==
    /\ tasks[c].pc = "none"
    /\ started < MaxCalls
    /\ started' = started + 1
    /\ IF _available # None
       THEN /\ trace' = Append(trace, Entry("return", "is_available", _available, c))
            /\ UNCHANGED tasks
       ELSE /\ trace' = Append(trace, Entry("probe", "ollama", << >>, c))
            /\ tasks' = [tasks EXCEPT ![c].pc = "probing"]
    /\ UNCHANGED << availframe, _available >>

\* the probe of caller c is answered, or fails: the answer is stored and
\* returned
ProbeAnswered(c) ==
    /\ tasks[c].pc = "probing"
    /\ \E o \in ProbeOutcomes :
          /\ _available' = Some(o = "200")
          /\ trace' = Append(trace, Entry("return", "is_available", Some(o = "200"), c))
    /\ tasks' = [tasks EXCEPT ![c].pc = "none"]
    /\ UNCHANGED << availframe, started >>

NextAvail ==
    \/ \E c \in Callers : IsAvailableCalled(c)
    \/ \E c \in Callers : ProbeAnswered(c)

SpecAvail == InitAvail /\ [][NextAvail]_vars

(* C21: is_available issues its probe at most once per client instance,    *)
(* and once a call has stored a boolean every later call returns that same *)
(* boolean: all the answers returned are the one stored first.             *)
C21_Claim ==
    /\ Len(OfType(trace, "probe")) <= 1
    /\ \A j, k \in DOMAIN OfType(trace, "return") :
          OfType(trace, "return")[j].data = OfType(trace, "return")[k].data


(* ------------------ websocket_chat around the agent -------------------- *)

\* One connection served by websocket_chat, and the turn its request runs
\* on the agent.  The handler's store calls (add_message) and the messages
\* it sends are entries of the trace, next to the agent's events.  In the
\* texts, "LONG" stands for a run of more than 500 characters; the other
\* tokens of a text stay under 500 characters together.

\* the message the handler sends for an event of Agent.chat; there is no
\* branch for `done`
Forward(event) ==
    CASE event.type = "chunk"       -> Some(Entry("send", "chunk", event.data, event.n))
      [] event.type = "tool_call"   -> Some(Entry("send", "tool_call", event.data, event.n))
      [] event.type = "tool_result" ->
             Some(Entry("send", "tool_result", Truncate500(event.data), event.n))
      [] event.type = "status"      -> Some(Entry("send", "status", << event.name >>, event.n))
      [] OTHER                      -> None

\* what receive_text delivers: a request with use_agent true or false, a
\* text that is not JSON, JSON that is not an object
Requests == { "agent", "simple", "not_json", "not_dict" }

\* the exception the lines before the first await raise for a request
RequestError(req) ==
    CASE req = "not_json" -> Some("JSONDecodeError")
      [] req = "not_dict" -> Some("AttributeError")
      [] OTHER            -> None

\* highest iteration ceiling of the agent behind the handler
WsCeiling == 2
\* most chunks the model produces in the turn a request runs
WsChunks == 2

\* the handler has accepted the connection and waits in receive_text
InitWs ==
    /\ max_iterations \in 1..WsCeiling
    /\ status = "idle"
    /\ conversation = << >>
    /\ pc = "idle"
    /\ messages = << >>
    /\ iteration = 0
    /\ full_response = << >>
    /\ current_response = << >>
    /\ tool_calls = << >>
    /\ idx = 0
    /\ tool_results = << >>
    /\ heap = << >>
    /\ exception = None
    /\ emitted = 0
    /\ trace = << >>
    /\ tasks = [c \in Callers |-> NoTask]
    /\ started = 0
    /\ op = None
    /\ ProviderIdle
    /\ handler = [pc |-> "receive", use_agent |-> TRUE, full_response |-> << >>,
                  forwarded |-> 0, requests |-> 0]
    /\ SessionsOpen

\* what the handler's own steps leave alone
wsframe == << max_iterations, status, pc, messages, iteration, full_response,
              current_response, tool_calls, idx, tool_results, heap,
              exception, emitted, opsvars, providervars, sessions >>

\* await websocket.send_json(msg) and the calls `after` made before the next
\* await, with the handler becoming h; when the client has gone the send
\* raises WebSocketDisconnect, which `except WebSocketDisconnect: pass`
\* swallows
Send(msg, tr, after, h) ==
    \/ /\ trace' = Append(tr, msg) \o after
       /\ handler' = h
    \/ /\ trace' = tr
       /\ handler' = [handler EXCEPT !.pc = "passed"]

\* mutant: the assistant message is not saved
SaveAssistant_Missing(full) == << >>

\* await memory.add_message(conv_id, "assistant", full_response)
SaveAssistant(full) == << Entry("add_message", "assistant", full, 0) >>

\* except Exception as e: the handler is about to send the error message
Caught(e, tr) ==
    /\ trace' = Append(tr, Entry("except", e, << >>, 0))
    /\ handler' = [handler EXCEPT !.pc = "error"]

\* receive_text returns a text: the request is decoded and
\* memory.add_message(conv_id, "user", message) is called
WsReceives ==
    /\ handler.pc = "receive"
    /\ handler.requests = 0
    /\ \E req \in Requests :
          IF RequestError(req) # None
          THEN Caught(RequestError(req)[1], trace)
          ELSE /\ trace' = Append(trace, Entry("add_message", "user", UserMessage, 0))
               /\ handler' = [handler EXCEPT !.pc = "store_user",
                                             !.use_agent = (req = "agent")]
    /\ UNCHANGED << wsframe, conversation >>

\* receive_text raises WebSocketDisconnect
WsDisconnected ==
    /\ handler.pc = "receive"
    /\ handler' = [handler EXCEPT !.pc = "passed"]
    /\ UNCHANGED << wsframe, conversation, trace >>

\* the store has saved the user message: the conversation id is sent and
\* the agent is called; simple_chat runs up to its await
WsUserSaved ==
    /\ handler.pc = "store_user"
    /\ IF handler.use_agent
       THEN /\ Send(Entry("send", "conversation_id", << >>, 0), trace, << >>,
                    [handler EXCEPT !.pc = "agent", !.full_response = << >>])
            /\ UNCHANGED conversation
       ELSE /\ Send(Entry("send", "conversation_id", << >>, 0), trace, << >>,
                    [handler EXCEPT !.pc = "simple"])
            /\ conversation' =
                  IF handler'.pc = "simple"
                  THEN ConversationAppend(conversation, ChatMessage("user", UserMessage))
                  ELSE conversation
    /\ UNCHANGED wsframe

\* a call of the store raises
WsStoreRaises ==
    /\ handler.pc \in { "store_user", "store_assistant" }
    /\ Caught("StoreError", trace)
    /\ UNCHANGED << wsframe, conversation >>

\* the handler asks the generator for its next event: Agent.chat runs to
\* its next yield or await
WsAgentRuns ==
    /\ handler.pc = "agent"
    /\ Len(Yielded(trace)) = handler.forwarded
    /\ Next
    /\ emitted' <= WsChunks

\* mutant: the chunk replaces the text collected so far
Collect_Overwrite(full, content) == content

\* full_response += event["content"]
Collect(full, content) == full \o content

\* the body of the async for loop for the event just received
WsForwards ==
    /\ handler.pc = "agent"
    /\ Len(Yielded(trace)) > handler.forwarded
    /\ LET event == Yielded(trace)[handler.forwarded + 1]
           full  == IF event.type = "chunk"
                    THEN Collect(handler.full_response, event.data)
                    ELSE handler.full_response
           h     == [handler EXCEPT !.forwarded = @ + 1, !.full_response = full]
       IN  IF Forward(event) = None
           THEN /\ handler' = h
                /\ UNCHANGED trace
           ELSE Send(Forward(event)[1], trace, << >>, h)
    /\ UNCHANGED << wsframe, conversation >>

\* the generator is exhausted: memory.add_message(conv_id, "assistant",
\* full_response) is called
WsAgentEnds ==
    /\ handler.pc = "agent"
    /\ pc = "done"
    /\ Len(Yielded(trace)) = handler.forwarded
    /\ trace' = trace \o SaveAssistant(handler.full_response)
    /\ handler' = [handler EXCEPT !.pc = "store_assistant"]
    /\ UNCHANGED << wsframe, conversation >>

\* an exception has left Agent.chat
WsAgentRaises ==
    /\ handler.pc = "agent"
    /\ pc = "raised"
    /\ Caught(exception[1], trace)
    /\ UNCHANGED << wsframe, conversation >>

\* simple_chat returns: the response is appended to the conversation, sent
\* as one chunk, and memory.add_message is called for it
WsSimpleReturns ==
    /\ handler.pc = "simple"
    /\ \E r \in Responses :
          /\ Send(Entry("send", "chunk", r, 0),
                  Append(trace, Entry("return", "simple_chat", r, 0)),
                  SaveAssistant(r), [handler EXCEPT !.pc = "store_assistant"])
          /\ conversation' = ConversationAppend(conversation, ChatMessage("assistant", r))
    /\ UNCHANGED wsframe

\* orchestrator.chat raises inside simple_chat
WsSimpleRaises ==
    /\ handler.pc = "simple"
    /\ Caught("RuntimeError", trace)
    /\ UNCHANGED << wsframe, conversation >>

\* the store has saved the assistant message: `done` is sent and the
\* handler waits for the next request
WsAssistantSaved ==
    /\ handler.pc = "store_assistant"
    /\ Send(Entry("send", "done", << >>, 0), trace, << >>,
            [handler EXCEPT !.pc = "receive", !.requests = @ + 1])
    /\ UNCHANGED << wsframe, conversation >>

\* the error message is sent and the handler returns
WsErrorSent ==
    /\ handler.pc = "error"
    /\ trace' = Append(trace, Entry("send", "error", << >>, 0))
    /\ handler' = [handler EXCEPT !.pc = "returned"]
    /\ UNCHANGED << wsframe, conversation >>

\* the send inside the except block raises: nothing handles it
WsErrorSendRaises ==
    /\ handler.pc = "error"
    /\ handler' = [handler EXCEPT !.pc = "escaped"]
    /\ UNCHANGED << wsframe, conversation, trace >>

NextWs ==
    \/ WsReceives
    \/ WsDisconnected
    \/ WsUserSaved
    \/ WsStoreRaises
    \/ WsAgentRuns
    \/ WsForwards
    \/ WsAgentEnds
    \/ WsAgentRaises
    \/ WsSimpleReturns
    \/ WsSimpleRaises
    \/ WsAssistantSaved
    \/ WsErrorSent
    \/ WsErrorSendRaises

SpecWs == InitWs /\ [][NextWs]_vars

\* the store calls and the messages sent so far
StoreCalls == OfType(trace, "add_message")
Sent == OfType(trace, "send")


\* the entries of the trace made by Agent.chat: its events and its calls
AgentEntryTypes == EventTypes \cup { "model_call", "_parse_tool_calls",
                                     "_execute_tool", "executor" }

\* the positions of the trace holding a store call with a role
SavedAt(role) ==
    { i \in DOMAIN trace : trace[i].type = "add_message" /\ trace[i].name = role }

\* the positions of the trace holding an entry of Agent.chat
AgentAt == { i \in DOMAIN trace : trace[i].type \in AgentEntryTypes }

\* the request of the connection has been dealt with
RequestOver ==
    \/ handler.requests = 1
    \/ handler.pc \in { "passed", "returned", "escaped" }

\* C22 as stated: once the handler is done with a request with use_agent
\* true, add_message has been called exactly twice, for the user message
\* and then for the assistant message
C22_Claim ==
    (RequestOver /\ handler.use_agent /\ StoreCalls # << >>)
        => /\ Len(StoreCalls) = 2
           /\ StoreCalls[1].name = "user"
           /\ StoreCalls[2].name = "assistant"

\* C22, amended: in a turn with use_agent true, add_message is called once
\* with role user before anything of the agent runs, and a second and last
\* time with role assistant exactly when the agent's event stream has ended
\* with `done`, after every event of the agent; a turn whose stream raises,
\* or whose client has gone before the stream ended, has the user call only
C22_StoreCallsAroundTheStream ==
    handler.use_agent =>
        /\ Cardinality(SavedAt("user")) <= 1
        /\ Cardinality(SavedAt("assistant")) <= 1
        /\ \A i \in AgentAt : \E u \in SavedAt("user") : u < i
        /\ \A a \in SavedAt("assistant") :
              /\ \A i \in AgentAt : i < a
              /\ \E u \in SavedAt("user") : u < a
              /\ pc = "done"
              /\ trace[a].data = handler.full_response
        /\ handler.pc \in { "store_assistant" } => SavedAt("assistant") # { }
        /\ handler.requests = 1 => Len(StoreCalls) = 2

\* a turn with a tool round has ended: the store was called twice
C22_Witness ==
    /\ handler.use_agent
    /\ handler.requests = 1
    /\ OfType(trace, "tool_result") # << >>
    /\ Len(StoreCalls) = 2


\* a text holds a run of more than 500 characters
HasLong(text) == \E i \in DOMAIN text : text[i] = "LONG"

\* the events of Agent.chat the handler has a branch for
Forwardable == SelectSeq(Yielded(trace), LAMBDA e : e.type # "done")

\* the messages the handler sent from inside the async for loop
Forwarded ==
    SelectSeq(Sent, LAMBDA m : m.name \in { "chunk", "tool_call", "tool_result", "status" })

\* C23: the tool_result event and the synthetic user message hold the full
\* result of each tool call, a result is cut to 500 characters only in the
\* message sent over the websocket, and the handler sends the chunk,
\* tool_call, tool_result and status events on in the order the agent
\* yielded them, chunk content unchanged
C23_TruncatedOnlyOnTheWire ==
    handler.use_agent =>
        /\ \A i \in DOMAIN trace :
              trace[i].type = "tool_result" =>
                  /\ heap[trace[i].n].result # None
                  /\ trace[i].data = heap[trace[i].n].result[1]
        /\ \A k \in DOMAIN tool_results :
              LET tc == heap[ForItem(tool_calls, k)]
              IN  tool_calls = << >> \/ tool_results[k] =
                     << "Tool '", tc.name, "' result:", "NL" >> \o tc.result[1]
        /\ (pc = "thinking" /\ iteration > 1) =>
              messages[Len(messages)] =
                 ChatMessage("user",
                     << "Resultats des outils:", "NL", "NL" >>
                     \o Join(<< "NL", "NL" >>, tool_results)
                     \o << "NL", "NL", "Continue ta reponse." >>)
        /\ Len(Forwarded) <= Len(Forwardable)
        /\ \A i \in DOMAIN Forwarded :
              LET m == Forwarded[i]
                  e == Forwardable[i]
              IN  /\ m.name = e.type
                  /\ m.n = e.n
                  /\ e.type \in { "chunk", "tool_call" } => m.data = e.data
                  /\ e.type = "status" => m.data = << e.name >>
                  /\ e.type = "tool_result" =>
                        IF HasLong(e.data)
                        THEN m.data # e.data /\ ~HasLong(m.data)
                        ELSE m.data = e.data

\* a result of more than 500 characters has been sent on cut, and the next
\* model call has been given it whole
C23_Witness ==
    /\ \E i \in DOMAIN Forwarded :
          Forwarded[i].name = "tool_result" /\ ~HasLong(Forwarded[i].data)
             /\ HasLong(Forwardable[i].data)
    /\ pc = "thinking"
    /\ iteration > 1
    /\ HasLong(messages[Len(messages)].content)


\* the messages of one type the handler has sent
SentOf(type) == SelectSeq(Sent, LAMBDA m : m.name = type)

\* C24: whatever is raised while a request is handled, the handler ends the
\* request with exactly one `done` message or exactly one `error` message,
\* never both, and no exception leaves the handler
C24_Claim ==
    /\ handler.pc # "escaped"
    /\ (RequestOver /\ trace # << >>) =>
          Len(SentOf("done")) + Len(SentOf("error")) = 1


(* --------------------------- the shutdown ------------------------------ *)

\* The application serves requests through the sessions its clients created
\* at construction, then runs the shutdown handler: memory.disconnect(),
\* then Agent.close (web_search.close, orchestrator.close), then
\* ModelOrchestrator.close (groq.close, ollama.close), each awaited in turn
\* with no try around it.

\* most requests made through one session before the shutdown
MaxUses == 2

\* the awaits of shutdown, Agent.close and ModelOrchestrator.close, in order
ShutdownSteps == << "memory.disconnect", "web_search.close", "groq.close",
                    "ollama.close" >>

\* the sessions whose aclose() a step calls
Released(step) ==
    CASE step = "web_search.close" -> << "web_search" >>
      [] step = "groq.close"       -> << "groq" >>
      [] step = "ollama.close"     -> << "ollama" >>
      [] OTHER                     -> << >>

InitShutdown ==
    /\ max_iterations = 1
    /\ status = "idle"
    /\ conversation = << >>
    /\ pc = "serving"
    /\ messages = << >>
    /\ iteration = 0
    /\ full_response = << >>
    /\ current_response = << >>
    /\ tool_calls = << >>
    /\ idx = 0
    /\ tool_results = << >>
    /\ heap = << >>
    /\ exception = None
    /\ emitted = 0
    /\ trace = << >>
    /\ OpsIdle
    /\ HandlerIdle
    /\ SessionsOpen
    /\ ProviderIdle

shutdownframe == << max_iterations, status, conversation, messages, iteration,
                    full_response, current_response, tool_calls,
                    tool_results, heap, emitted, opsvars, providervars,
                    handler >>

\* a request goes through the session of a client: self.client.post, .get
\* or .stream, on the session made in __init__
ClientUsed(c) ==
    /\ pc = "serving"
    /\ sessions[c].uses < MaxUses
    /\ sessions' = [sessions EXCEPT ![c].uses = @ + 1]
    /\ trace' = Append(trace, Entry("request", c, << >>, sessions[c].created))
    /\ UNCHANGED << shutdownframe, pc, idx, exception >>

\* the application stops: shutdown() runs up to `await memory.disconnect()`
ShutdownBegins ==
    /\ pc = "serving"
    /\ pc' = "shutdown"
    /\ idx' = 1
    /\ trace' = Append(trace, Entry("call", ShutdownSteps[1], << >>, 1))
    /\ UNCHANGED << shutdownframe, sessions, exception >>

\* the session of each client in a list gets one more aclose()
CloseAll(s, cs) ==
    [c \in Clients |->
        [s[c] EXCEPT !.closed = @ + Len(SelectSeq(cs, LAMBDA x : x = c))]]

\* the awaited call returns: its session is closed and the next call is made
StepReturns ==
    /\ pc = "shutdown"
    /\ sessions' = CloseAll(sessions, Released(ShutdownSteps[idx]))
    /\ IF idx < Len(ShutdownSteps)
       THEN /\ idx' = idx + 1
            /\ trace' = Append(trace, Entry("call", ShutdownSteps[idx + 1], << >>, idx + 1))
            /\ pc' = pc
       ELSE /\ pc' = "stopped"
            /\ UNCHANGED << idx, trace >>
    /\ UNCHANGED << shutdownframe, exception >>

\* the awaited call raises: the exception leaves shutdown() and the calls
\* after it are not made
StepRaises ==
    /\ pc = "shutdown"
    /\ exception' = Some(ShutdownSteps[idx])
    /\ pc' = "failed"
    /\ UNCHANGED << shutdownframe, sessions, idx, trace >>

NextShutdown ==
    \/ \E c \in Clients : ClientUsed(c)
    \/ ShutdownBegins
    \/ StepReturns
    \/ StepRaises

SpecShutdown == InitShutdown /\ [][NextShutdown]_vars

\* C25: when the shutdown handler is over, the session of each of the Groq
\* client, the Ollama client and the web-search tool has been closed exactly
\* once, whichever way shutdown, Agent.close and ModelOrchestrator.close
\* went, and no session was created after construction
C25_Claim ==
    /\ \A c \in Clients : sessions[c].created = 1 /\ sessions[c].closed <= 1
    /\ pc \in { "stopped", "failed" } => \A c \in Clients : sessions[c].closed = 1


(* ---------------------- the end-to-end scenario ------------------------ *)

\* One turn against a scripted model: response 1 holds a list_directory
\* directive, response 2 a read_file directive, response 3 the plain text
\* "Done.".  The stream hands each response over in fragments cut anywhere
\* between its tokens.

Script == << Block(J_list), Block(J_read), << "Done." >> >>

InitScenario ==
    /\ max_iterations \in 1..MaxCeiling
    /\ status = "idle"
    /\ conversation = << >>
    /\ pc = "idle"
    /\ messages = << >>
    /\ iteration = 0
    /\ full_response = << >>
    /\ current_response = << >>
    /\ tool_calls = << >>
    /\ idx = 0
    /\ tool_results = << >>
    /\ heap = << >>
    /\ exception = None
    /\ emitted = 0
    /\ trace = << >>
    /\ OpsIdle
    /\ HandlerIdle
    /\ SessionsOpen
    /\ ProviderIdle

\* the stream delivers the next fragment of the scripted response
ScriptedChunk ==
    /\ pc = "stream"
    /\ \E n \in 1..(Len(Script[iteration]) - Len(current_response)) :
         LET c == SubSeq(Script[iteration], Len(current_response) + 1,
                         Len(current_response) + n)
         IN  /\ current_response' = current_response \o c
             /\ trace' = Append(trace, Entry("chunk", "", c, iteration))
    /\ emitted' = emitted + 1
    /\ UNCHANGED << opsvars, providervars, handler, sessions, max_iterations,
                    status, conversation, pc, messages, iteration,
                    full_response, tool_calls, idx, tool_results, heap,
                    exception >>

\* the scripted response has been delivered whole: the stream ends
ScriptedStreamEnd ==
    /\ pc = "stream"
    /\ current_response = Script[iteration]
    /\ StreamEnd

NextScenario ==
    \/ Chat
    \/ ModelCall
    \/ ScriptedChunk
    \/ ScriptedStreamEnd
    \/ ExecuteTool
    \/ ExecutorReturns
    \/ ExecutorRaises
    \/ EndToolRound

SpecScenario == InitScenario /\ [][NextScenario]_vars

\* the names carried by the events of one type, in order
NamesOf(type) == [k \in DOMAIN OfType(trace, type) |-> OfType(trace, type)[k].name]

\* C26 as stated: with a ceiling of three iterations or more the scenario
\* ends after 3 model calls and 2 tool_call/tool_result pairs with a `done`
\* event whose content is "Done."
C26_Claim ==
    (pc = "done" /\ max_iterations >= 3) =>
        /\ ModelCalls = 3
        /\ Len(OfType(trace, "tool_call")) = 2
        /\ Len(OfType(trace, "tool_result")) = 2
        /\ trace[Len(trace)].type = "done"
        /\ trace[Len(trace)].data = << "Done." >>

\* C26, amended: with a ceiling of three iterations or more the scenario
\* never raises and ends after exactly 3 model calls and the two pairs
\* tool_call/tool_result of list_directory then read_file, with one `done`
\* event whose content is the text of the three responses concatenated,
\* "Done." being its end
C26_ScenarioEndsWithAllText ==
    max_iterations >= 3 =>
        /\ pc # "raised"
        /\ pc = "done" =>
              /\ ModelCalls = 3
              /\ NamesOf("tool_call") = << "list_directory", "read_file" >>
              /\ NamesOf("tool_result") = << "list_directory", "read_file" >>
              /\ LET tt == SelectSeq(trace, LAMBDA e : e.type \in {"tool_call", "tool_result"})
                 IN  [k \in DOMAIN tt |-> tt[k].type] =
                        << "tool_call", "tool_result", "tool_call", "tool_result" >>
              /\ Len(OfType(trace, "done")) = 1
              /\ trace[Len(trace)].type = "done"
              /\ trace[Len(trace)].data = Script[1] \o Script[2] \o Script[3]

\* the scenario has run to its end under a ceiling of three or more
C26_Witness ==
    /\ pc = "done"
    /\ max_iterations >= 3
    /\ ModelCalls = 3
    /\ Len(OfType(trace, "tool_result")) = 2


\* position in the trace of the scan that closed the stream of iteration r
ScanAt(r) ==
    CHOOSE i \in DOMAIN trace : trace[i].type = "_parse_tool_calls" /\ trace[i].n = r

\* the results of the tool calls of iteration r, formatted, in the order
\* their tool_result events were yielded
ResultsOf(r) ==
    LET evs == SelectSeq(Round(ScanAt(r)), LAMBDA e : e.type = "tool_result")
    IN  [k \in DOMAIN evs |->
            << "Tool '", evs[k].name, "' result:", "NL" >> \o evs[k].data]

\* the two messages the tool round of iteration r leaves in the working list
SyntheticOf(r) ==
    << [role |-> "assistant", content |-> trace[ScanAt(r)].data],
       [role |-> "user",
        content |-> << "Resultats des outils:", "NL", "NL" >>
                    \o Join(<< "NL", "NL" >>, ResultsOf(r))
                    \o << "NL", "NL", "Continue ta reponse." >>] >>

\* C27: each tool round appends exactly two messages to the working list,
\* the assistant message with the raw text of the iteration and then the
\* user message with the results of its tool calls in execution order, so
\* the j-th model call gets the system prompt, the conversation history
\* and the 2*(j-1) synthetic messages of the earlier iterations in order
C27_TwoSyntheticMessagesPerRound ==
    pc \in { "thinking", "stream" } =>
        /\ Len(messages) = 1 + Len(conversation) + 2 * (iteration - 1)
        /\ messages[1] = ChatMessage("system", SYSTEM_PROMPT)
        /\ SubSeq(messages, 2, 1 + Len(conversation)) = conversation
        /\ \A r \in 1..(iteration - 1) :
              SubSeq(messages, Len(conversation) + 2 * r,
                     Len(conversation) + 2 * r + 1) = SyntheticOf(r)

\* the third model call of a turn whose earlier rounds ran tools
C27_Witness ==
    /\ pc = "stream"
    /\ iteration = 3
    /\ Len(messages) = 6
    /\ \E r \in 1..2 : Len(ResultsOf(r)) >= 2


(* ----------------------- the executor's timeout ------------------------ *)

\* Turns in which the model asks for execute_python and execute_shell, and
\* the subprocess may run past CodeExecutor.timeout.

\* most chunks the model produces in such a turn
MaxExecChunks == 2

ExecChunks == { << "TXT" >>, Block(J_python), Block(J_shell) }

\* mutant: wait_for's TimeoutError is not handled in the executor
CaughtByExecutor_Nothing == { }

\* except asyncio.TimeoutError, around wait_for(process.communicate())
CaughtByExecutor == { "TimeoutError" }

\* the ExecutionResult returned when the subprocess ran out of time
TimeoutResult(name) ==
    [success |-> "False", output |-> << >>,
     error |-> << IF name = "execute_python" THEN "Execution" ELSE "Command",
                  " timed out after ", "timeout", " seconds" >>,
     return_code |-> "-1"]

\* the text _execute_tool makes of an ExecutionResult
FormatExec(name, r) ==
    IF name = "execute_python"
    THEN << "Output: " >> \o r.output \o << "NL" >>
         \o (IF r.error # << >> THEN << "Error: " >> \o r.error \o << "NL" >> ELSE << >>)
         \o << "Return code: ", r.return_code >>
    ELSE << "Output: " >> \o r.output \o << "NL" >>
         \o (IF r.error # << >> THEN << "Error: " >> \o r.error ELSE << >>)

InitExec ==
    /\ max_iterations \in 1..MaxCeiling
    /\ status = "idle"
    /\ conversation = << >>
    /\ pc = "idle"
    /\ messages = << >>
    /\ iteration = 0
    /\ full_response = << >>
    /\ current_response = << >>
    /\ tool_calls = << >>
    /\ idx = 0
    /\ tool_results = << >>
    /\ heap = << >>
    /\ exception = None
    /\ emitted = 0
    /\ trace = << >>
    /\ OpsIdle
    /\ HandlerIdle
    /\ SessionsOpen
    /\ ProviderIdle

\* the stream delivers a chunk
ExecChunk ==
    /\ pc = "stream"
    /\ emitted < MaxExecChunks
    /\ \E c \in ExecChunks :
         /\ current_response' = current_response \o c
         /\ trace' = Append(trace, Entry("chunk", "", c, iteration))
    /\ emitted' = emitted + 1
    /\ UNCHANGED << opsvars, providervars, handler, sessions, max_iterations,
                    status, conversation, pc, messages, iteration,
                    full_response, tool_calls, idx, tool_results, heap,
                    exception >>

\* the subprocess is still running when the timeout expires and when it is
\* killed: wait_for raises TimeoutError inside execute_python or
\* execute_shell
ExecutorTimesOut ==
    /\ pc = "exec"
    /\ LET id   == ForItem(tool_calls, idx)
           name == heap[id].name
           tr   == Append(trace, Entry("timeout", name, << >>, id))
       IN  /\ name \in { "execute_python", "execute_shell" }
           /\ IF "TimeoutError" \in CaughtByExecutor
              THEN Finish(id, FormatExec(name, TimeoutResult(name)),
                          tr \o << Entry("kill", name, << >>, id),
                                   Entry("ExecutionResult", name,
                                         << TimeoutResult(name).success,
                                            TimeoutResult(name).return_code >>
                                         \o TimeoutResult(name).error, id) >>)
              ELSE Except(id, "TimeoutError", tr)
    /\ UNCHANGED << opsvars, providervars, handler, sessions, max_iterations,
                    status, conversation, messages, iteration, full_response,
                    current_response, tool_calls, idx, emitted >>

NextExec ==
    \/ Chat
    \/ ModelCall
    \/ ExecChunk
    \/ StreamEnd
    \/ ExecuteTool
    \/ ExecutorReturns
    \/ ExecutorRaises
    \/ ExecutorTimesOut
    \/ NextTool
    \/ EndToolRound

SpecExec == InitExec /\ [][NextExec]_vars

\* a text names the timeout
NamesTimeout(text) == \E i \in DOMAIN text : text[i] = " timed out after "

LinesRead == SubSeq(wire, 1, idx)

\* the contents of the deltas among some lines that have a content
ContentsOf(lines) ==
    LET ds == SelectSeq(lines, LAMBDA l : /\ l.prefix = "data: "
                                          /\ l.payload = "delta"
                                          /\ l.content # << >>)
    IN  [k \in DOMAIN ds |-> ds[k].content]

\* C29: GroqClient.chat_stream reads no line and yields nothing once it
\* has read the sentinel; of the lines it reads it yields, in wire order,
\* the content of each delta that has one, and nothing for a line that is
\* not a data line, for a delta with an empty or missing content, or for a
\* payload that is not JSON; a stream it reads to its end has yielded every
\* such delta sent before the sentinel
C29_YieldsDeltasUntilSentinel ==
    (request # None /\ method = "GroqClient.chat_stream" /\ pc # "provider") =>
        /\ \A i \in SentinelAt : idx <= i
        /\ [k \in DOMAIN OfType(trace, "chunk") |-> OfType(trace, "chunk")[k].data]
              = ContentsOf(BeforeSentinel(LinesRead))
        /\ pc = "ended" =>
              /\ idx = Len(wire) \/ idx \in SentinelAt
              /\ Len(OfType(trace, "chunk")) = Len(ContentsOf(BeforeSentinel(wire)))

\* the stream was left at the sentinel with a delta still on the wire,
\* after a chunk was yielded and a line that is not JSON was passed over
C29_Witness ==
    /\ request # None
    /\ method = "GroqClient.chat_stream"
    /\ pc = "ended"
    /\ idx \in SentinelAt
    /\ \E i \in DOMAIN wire : i > idx /\ wire[i].payload = "delta" /\ wire[i].content # << >>
    /\ \E i \in 1..idx : wire[i].payload = "not_json"
    /\ OfType(trace, "chunk") # << >>


\* C30: a turn yields `done` at most once, as its last event; the
\* full_response it carries is the concatenation of the contents of the
\* turn's chunk events in the order they were yielded, and is the content
\* of the assistant message appended to Agent.conversation; the text the
\* handler collects from the chunks and saves is the same
C30_DoneCarriesAllChunks ==
    handler.use_agent =>
        /\ Len(OfType(trace, "done")) = (IF pc = "done" THEN 1 ELSE 0)
        /\ pc = "done" =>
              LET d == OfType(trace, "done")[1]
              IN  /\ d.data = ChunksText
                  /\ Yielded(trace)[Len(Yielded(trace))] = d
                  /\ conversation # << >>
                  /\ conversation[Len(conversation)] = ChatMessage("assistant", d.data)
                  /\ Len(SelectSeq(conversation, LAMBDA m : m.role = "assistant")) = 1
                  /\ handler.forwarded = Len(Yielded(trace)) => handler.full_response = d.data
                  /\ \A a \in SavedAt("assistant") : trace[a].data = d.data

\* a turn of two iterations has completed and its text was saved
C30_Witness ==
    /\ handler.use_agent
    /\ pc = "done"
    /\ iteration = 2
    /\ Len(OfType(trace, "chunk")) = 2
    /\ OfType(trace, "chunk")[1].n = 1
    /\ OfType(trace, "chunk")[2].n = 2
    /\ SavedAt("assistant") # { }


(***************************************************************************)
(* Claims on the providers of one stream, on the status between turns, on  *)
(* conversations, on tool results, on the store and on file operations     *)
(***************************************************************************)

(* C31: all chunks yielded by one call of ModelOrchestrator.chat_stream    *)
(* come from a single provider's response: when the Groq stream fails      *)
(* after having yielded some chunks, the caller does not receive those     *)
(* partial Groq chunks followed by the chunks of the Ollama fallback.      *)
C31_Claim ==
    method = "chat_stream" =>
        LET chunks == OfType(trace, "chunk")
        IN  \A i, j \in DOMAIN chunks : chunks[i].name = chunks[j].name


(* C32: whenever no turn is being processed on the Agent, Agent.status is  *)
(* IDLE; in particular after a turn aborted by a provider failure, or      *)
(* abandoned because the caller stopped consuming the event stream.        *)
C32_Claim ==
    (RequestOver /\ handler.use_agent) => status = "idle"


(* ------------- websocket requests and their conversation ids ----------- *)
(* Each request received by websocket_chat names a conversation_id (or is  *)
(* given a fresh one) and is passed to the global agent.  The trace keeps  *)
(* one "request" entry per request (its conversation id, its connection    *)
(* and its number) and one "model_call" entry per message list handed to   *)
(* the orchestrator, named by the conversation id of the request it is     *)
(* made for.                                                               *)

\* the values of the "conversation_id" key of a request: absent, or a name
ConversationIdArgs == { None, Some("X"), Some("Y") }

\* conv_id = request.get("conversation_id") or str(uuid.uuid4()), for the
\* n-th request: each uuid4 is a new value
ConvId(given, n) == IF given = None THEN "uuid-" \o ToString(n) ELSE given[1]

\* the conversation id of the request connection c is serving
ConvOf(c, tr) ==
    LET reqs == SelectSeq(tr, LAMBDA e : e.type = "request" /\ e.data = << c >>)
    IN  reqs[Len(reqs)].name

\* the message list msgs is handed to the orchestrator for conversation x
Handed(x, msgs, c) == Entry("model_call", x, msgs, c)

InitConv ==
    /\ max_iterations \in 1..WsCeiling
    /\ status = "idle"
    /\ conversation = << >>
    /\ pc = "idle"
    /\ messages = << >>
    /\ iteration = 0
    /\ full_response = << >>
    /\ current_response = << >>
    /\ tool_calls = << >>
    /\ idx = 0
    /\ tool_results = << >>
    /\ heap = << >>
    /\ exception = None
    /\ emitted = 0
    /\ trace = << >>
    /\ OpsIdle
    /\ HandlerIdle
    /\ SessionsOpen
    /\ ProviderIdle

\* the variables the requests do not touch
convframe == << max_iterations, pc, messages, iteration, full_response,
                current_response, tool_calls, idx, tool_results, heap,
                exception, emitted, op, providervars, handler, sessions >>

\* websocket_chat of connection c receives its next request and calls
\* agent.chat(message, model) or agent.simple_chat(message, model), up to
\* the first `yield status` or the `await` of simple_chat; conv_id is not
\* among the arguments and the list is built from self.conversation
ConvReceives(c) ==
    /\ tasks[c].pc = "none"
    /\ started < MaxTurns
    /\ started' = started + 1
    /\ \E given \in ConversationIdArgs, use_agent \in BOOLEAN :
          LET n    == started + 1
              x    == ConvId(given, n)
              tr   == Append(trace, Entry("request", x, << c >>, n))
              conv == ConversationAppend(conversation,
                          ChatMessage("user", UserMessageOf(n)))
              sys  == IF use_agent THEN SYSTEM_PROMPT ELSE SIMPLE_PROMPT
              msgs == << ChatMessage("system", sys) >> \o conv
          IN  /\ conversation' = conv
              /\ status' = IF use_agent THEN "thinking" ELSE status
              /\ tasks' = [tasks EXCEPT ![c] =
                              [pc |-> IF use_agent THEN "thinking" ELSE "simple",
                               messages |-> msgs,
                               iteration |-> IF use_agent THEN 1 ELSE 0,
                               full_response |-> << >>,
                               current_response |-> << >>]]
              /\ trace' = Append(tr, Handed(x, msgs, c))
    /\ UNCHANGED convframe

\* the stream of connection c's turn ends: the response is scanned; the
\* turn ends, or the tools run and the next model call is made with the
\* two synthetic messages added, or the ceiling is reached
ConvResponds(c) ==
    /\ tasks[c].pc = "thinking"
    /\ \E r \in Responses :
          LET full == tasks[c].full_response \o r
              tcs  == ParseToolCalls(r).value
              msgs == tasks[c].messages \o
                          ToolRoundMessages(r,
                              << ResultEntry("list_directory",
                                             ToolOutput("list_directory")) >>)
          IN  IF BreakOnNoTools(tcs) \/ ~ LoopTest(tasks[c].iteration, max_iterations)
              THEN /\ OpsLoopExit(c, full)
                   /\ UNCHANGED trace
              ELSE /\ status' = "thinking"
                   /\ tasks' = [tasks EXCEPT ![c].messages = msgs,
                                             ![c].iteration = @ + 1,
                                             ![c].full_response = full,
                                             ![c].current_response = << >>]
                   /\ trace' = Append(trace, Handed(ConvOf(c, trace), msgs, c))
                   /\ UNCHANGED conversation
    /\ UNCHANGED << convframe, started >>

\* simple_chat of connection c after the orchestrator returned
ConvSimpleReturns(c) ==
    /\ tasks[c].pc = "simple"
    /\ \E r \in Responses :
          conversation' = ConversationAppend(conversation, ChatMessage("assistant", r))
    /\ tasks' = [tasks EXCEPT ![c] = NoTask]
    /\ UNCHANGED << convframe, status, started, trace >>

\* the provider raises, or the client of connection c has gone: the turn
\* ends where it is and the connection's handler returns
ConvEnds(c) ==
    /\ tasks[c].pc \in { "thinking", "simple" }
    /\ tasks' = [tasks EXCEPT ![c] = NoTask]
    /\ UNCHANGED << convframe, status, conversation, started, trace >>

NextConv ==
    \/ \E c \in Callers : ConvReceives(c)
    \/ \E c \in Callers : ConvResponds(c)
    \/ \E c \in Callers : ConvSimpleReturns(c)
    \/ \E c \in Callers : ConvEnds(c)

SpecConv == InitConv /\ [][NextConv]_vars

\* the conversation id of the request numbered k
RequestConv(k) ==
    LET reqs == SelectSeq(trace, LAMBDA e : e.type = "request" /\ e.n = k)
    IN  reqs[1].name

(* C33: the message list sent to the model for a websocket request with    *)
(* conversation_id X contains, apart from the system prompt and synthetic  *)
(* tool turns, only messages that belong to conversation X: the user       *)
(* message of a request made under a different conversation_id (on the     *)
(* same or another connection) never appears in it.                        *)
C33_Claim ==
    \A i \in DOMAIN trace :
        trace[i].type = "model_call" =>
            \A j \in DOMAIN trace[i].data, k \in 1..started :
                (/\ trace[i].data[j].role = "user"
                 /\ trace[i].data[j].content = UserMessageOf(k))
                => RequestConv(k) = trace[i].name


\* part occurs in text as a run of consecutive tokens
IsInfix(part, text) ==
    \E i \in 0..(Len(text) - Len(part)) : SubSeq(text, i + 1, i + Len(part)) = part

\* the iterations of the turn whose scan has been made and whose tool
\* round has produced at least one result
RoundsWithResults ==
    { r \in 1..iteration :
        /\ \E i \in DOMAIN trace : trace[i].type = "_parse_tool_calls" /\ trace[i].n = r
        /\ ResultsOf(r) # << >> }

\* a model call of the turn later than iteration r has been made
CalledAfter(r) ==
    \E i \in DOMAIN trace : trace[i].type = "model_call" /\ trace[i].n > r

\* the working list holds a user message carrying every result of round r
ShownToModel(r) ==
    LET results == ResultsOf(r)
    IN  \E j \in DOMAIN messages :
            /\ messages[j].role = "user"
            /\ \A k \in DOMAIN results : IsInfix(results[k], messages[j].content)

(* C34 as stated: every tool call executed in a turn has its result        *)
(* included in the message list of a later model call of the same turn,    *)
(* including in the iteration that reaches max_iterations: a turn that has *)
(* ended has no tool round without a later model call.                     *)
C34_Claim ==
    pc = "done" => \A r \in RoundsWithResults : CalledAfter(r) /\ ShownToModel(r)

(* C34, amended: in a turn whose events are consumed to the end, the       *)
(* results of the tool calls executed in an iteration below max_iterations *)
(* are in the message list of the next model call, which is made; the tool *)
(* calls of the iteration equal to max_iterations are executed and are     *)
(* followed by no model call, and they are the only ones that are not.     *)
C34_ResultsShownBelowCeiling ==
    \A r \in RoundsWithResults :
        IF CalledAfter(r)
        THEN r < max_iterations /\ ShownToModel(r)
        ELSE /\ pc \in { "done", "raised" } => r = max_iterations
             /\ r < max_iterations =>
                   (pc \in { "stream", "tool_call", "exec" } => iteration = r)

\* a turn cut off at a ceiling of two: the results of the first round were
\* in the list of the second model call, those of the second round were
\* produced and followed by no call
C34_Witness ==
    /\ pc = "done"
    /\ max_iterations = 2
    /\ RoundsWithResults = { 1, 2 }
    /\ CalledAfter(1) /\ ShownToModel(1)
    /\ ~ CalledAfter(2)


(* C35: after any sequence of chat and simple_chat turns (completed,       *)
(* failed by provider error, or abandoned) and clear_conversation calls,   *)
(* Agent.conversation strictly alternates roles starting with user: every  *)
(* assistant message is immediately preceded by the user message it        *)
(* answers and no two user messages are adjacent.  Stated on the states    *)
(* in which no turn is in flight.                                          *)
C35_Claim ==
    InFlight = { } =>
        \A i \in DOMAIN conversation :
            conversation[i].role = IF i % 2 = 1 THEN "user" ELSE "assistant"


(* ------ HuggingFaceClient.chat over its free models, and its stream ---- *)
(* chat tries the models of FREE_MODELS in order, each inside one try, and *)
(* chat_stream calls chat inside its own try.  The trace keeps one         *)
(* "attempt" entry per model tried, with what the request came to.         *)

\* HuggingFaceClient.FREE_MODELS
FREE_MODELS ==
    << "HuggingFaceH4/zephyr-7b-beta", "microsoft/Phi-3-mini-4k-instruct",
       "google/gemma-1.1-7b-it", "mistralai/Mistral-7B-Instruct-v0.2" >>

\* what one request to the inference API comes to: the transport fails,
\* the status is 503 or another error status, the body is not JSON, or the
\* body is a list or an object, with or without a generated_text
HFOutcomes ==
    { "ConnectError", "503", "HTTPStatusError", "not_json", "empty_list",
      "list_null_text", "list_no_text", "list_text", "dict_no_text", "dict_text" }

\* the generated texts of a body that has one
HFTexts == { << "a" >>, << "a", "SP", "SP", "b" >>, << "NL" >> }

\* one pass of the try block of chat for an outcome o and a generated text
\* t: the content returned, or None when the pass ends in `continue`
\* (status 503, or an exception caught by `except Exception`: the
\* transport, raise_for_status, response.json(), `.get` on an empty list's
\* place, `.split()` on a null text)
HFContent(o, t) ==
    CASE o \in { "list_text", "dict_text" } -> Some(t)
      [] o = "list_no_text" -> Some(<< >>)
      [] o = "dict_no_text" -> Some(<< "{}" >>)
      [] OTHER -> None

\* mutant: chat_stream has no except branch
CaughtByHFStream_Nothing == { }

\* except Exception around the call of chat and the yields of chat_stream
CaughtByHFStream == { "RuntimeError" }

\* the models chat has tried so far
Attempts == OfType(trace, "attempt")

InitHF ==
    /\ max_iterations = 1
    /\ status = "idle"
    /\ conversation = << >>
    /\ pc = "chat"
    /\ messages = << >>
    /\ iteration = 0
    /\ full_response = << >>
    /\ current_response = << >>
    /\ tool_calls = << >>
    /\ idx = 0
    /\ tool_results = << >>
    /\ heap = << >>
    /\ exception = None
    /\ emitted = 0
    /\ trace = << >>
    /\ OpsIdle
    /\ HandlerIdle
    /\ SessionsOpen
    /\ request = Some([method |-> "HuggingFaceClient.chat_stream", model |-> None])
    /\ _available = None
    /\ returned = None
    /\ wire = << >>

\* one pass of `for model_name in self.FREE_MODELS`: the request is sent
\* and chat returns a ModelResponse or goes on to the next model
HFTriesModel ==
    /\ pc = "chat"
    /\ Len(Attempts) < Len(FREE_MODELS)
    /\ \E o \in HFOutcomes, t \in HFTexts :
          LET name == FREE_MODELS[Len(Attempts) + 1]
          IN  /\ trace' = Append(trace, Entry("attempt", name, << o >>, Len(Attempts) + 1))
              /\ IF HFContent(o, t) = None
                 THEN UNCHANGED << pc, returned, wire, idx >>
                 ELSE /\ wire' = HFContent(o, t)[1]
                      /\ returned' = Some([HFResponse(HFContent(o, t)[1])
                                              EXCEPT !.model = << name >>])
                      /\ idx' = 0
                      /\ pc' = "words"
    /\ UNCHANGED << streamframe, exception >>

\* the for loop of chat is exhausted: chat raises RuntimeError, and the
\* except branch of chat_stream yields one chunk holding the error text
HFAllFailed ==
    /\ pc = "chat"
    /\ Len(Attempts) = Len(FREE_MODELS)
    /\ IF "RuntimeError" \in CaughtByHFStream
       THEN /\ trace' = Append(trace, Entry("chunk", "huggingface", HFErrorChunk, 1))
            /\ pc' = "error"
            /\ UNCHANGED exception
       ELSE /\ exception' = Some("RuntimeError")
            /\ pc' = "failed"
            /\ UNCHANGED trace
    /\ UNCHANGED << streamframe, idx, returned, wire >>

\* resumed after the yield of the except branch: the generator ends
HFErrorEnds ==
    /\ pc = "error"
    /\ pc' = "ended"
    /\ UNCHANGED << streamframe, idx, exception, trace, returned, wire >>

NextHF ==
    \/ HFTriesModel
    \/ HFAllFailed
    \/ HFErrorEnds
    \/ HFYields
    \/ HFEnds

SpecHF == InitHF /\ [][NextHF]_vars

(* C36: HuggingFaceClient.chat_stream never raises to its caller: when the *)
(* underlying chat fails for every free model (and only then) it yields    *)
(* exactly one chunk, which holds the error text, and then ends; a total   *)
(* provider failure is delivered as ordinary content.                      *)
C36_TotalFailureIsAChunk ==
    LET chunks == OfType(trace, "chunk")
        failed == /\ Len(Attempts) = Len(FREE_MODELS)
                  /\ returned = None
    IN  /\ exception = None
        /\ pc \in { "chat", "words", "error", "ended" }
        /\ (failed /\ pc \in { "error", "ended" }) =>
              /\ Len(chunks) = 1
              /\ chunks[1].data = HFErrorChunk
        /\ (failed /\ pc = "chat") => chunks = << >> /\ ENABLED HFAllFailed
        /\ pc = "error" => ENABLED HFErrorEnds
        /\ ~ failed => /\ \A k \in DOMAIN chunks : chunks[k].data # HFErrorChunk
                       /\ pc # "error"

\* each of the four models failed in its own way, and the stream has ended
\* after its one chunk
C36_Witness ==
    /\ pc = "ended"
    /\ Len(Attempts) = 4
    /\ returned = None
    /\ { Attempts[k].data[1] : k \in 1..4 } =
           { "503", "ConnectError", "empty_list", "list_null_text" }
    /\ Len(OfType(trace, "chunk")) = 1


(* ------------------- MemoryManager: the messages table ----------------- *)
(* The rows of the table `messages` are kept in heap in rowid order (the   *)
(* order of the INSERTs); `emitted` is the clock CURRENT_TIMESTAMP reads,  *)
(* in whole seconds; `request` is the last call made on the store and      *)
(* `returned` what it returned.  A SELECT with ORDER BY timestamp returns  *)
(* the rows of equal timestamp in an order SQL leaves unspecified: any of  *)
(* them.                                                                   *)

\* most rows inserted, most seconds the clock advances
MaxRows == 3
MaxSeconds == 1

\* the conversation ids the store is called with
StoreConversations == { "X", "Y" }

\* the call made on the store
StoreCall(name, conversation_id, count) ==
    [method |-> name, conversation_id |-> conversation_id, count |-> count]

\* the rowids of the rows WHERE conversation_id = cid
RowsOf(cid) == { i \in DOMAIN heap : heap[i].conversation_id = cid }

\* the orders in which SELECT ... ORDER BY timestamp ASC (desc FALSE) or
\* DESC (desc TRUE) can return the rows whose rowids are in S: timestamps
\* in order, ties in any order
OrderByTimestamp(S, desc) ==
    LET n == Cardinality(S)
    IN  { f \in [1..n -> S] :
            /\ \A j, k \in 1..n : j # k => f[j] # f[k]
            /\ \A k \in 1..(n - 1) :
                  IF desc THEN heap[f[k]].timestamp >= heap[f[k + 1]].timestamp
                          ELSE heap[f[k]].timestamp <= heap[f[k + 1]].timestamp }

\* LIMIT count
Limit(rows, count) == SubSeq(rows, 1, IF count < Len(rows) THEN count ELSE Len(rows))

\* reversed(rows)
Reversed(rows) == [k \in 1..Len(rows) |-> rows[Len(rows) + 1 - k]]

\* the ConversationMessage objects built from the rows fetched
MessagesOf(rowids) == [k \in 1..Len(rowids) |-> heap[rowids[k]]]

InitMemory ==
    /\ max_iterations = 1
    /\ status = "idle"
    /\ conversation = << >>
    /\ pc = "idle"
    /\ messages = << >>
    /\ iteration = 0
    /\ full_response = << >>
    /\ current_response = << >>
    /\ tool_calls = << >>
    /\ idx = 0
    /\ tool_results = << >>
    /\ heap = << >>
    /\ exception = None
    /\ emitted = 0
    /\ trace = << >>
    /\ OpsIdle
    /\ HandlerIdle
    /\ SessionsOpen
    /\ ProviderIdle

\* the variables the store does not touch
memoryframe == << handler, sessions, max_iterations, status, conversation, pc,
                  messages, iteration, full_response, current_response,
                  tool_calls, idx, tool_results, exception, trace, opsvars,
                  _available, wire >>

\* a second passes
ClockTicks ==
    /\ emitted < MaxSeconds
    /\ emitted' = emitted + 1
    /\ UNCHANGED << memoryframe, heap, request, returned >>

\* add_message(conversation_id, role, content): the row gets the next
\* rowid and the current second as its timestamp
AddMessage ==
    /\ Len(heap) < MaxRows
    /\ \E cid \in StoreConversations, role \in { "user", "assistant" } :
          /\ heap' = Append(heap, [id |-> Len(heap) + 1, conversation_id |-> cid,
                                   role |-> role, content |-> << "TXT" >>,
                                   timestamp |-> emitted])
          /\ request' = Some(StoreCall("add_message", cid, 0))
    /\ returned' = Some(Len(heap) + 1)
    /\ UNCHANGED << memoryframe, emitted >>

\* get_messages(conversation_id)
GetMessages ==
    /\ heap # << >>
    /\ \E cid \in StoreConversations :
          /\ request' = Some(StoreCall("get_messages", cid, 0))
          /\ \E rows \in OrderByTimestamp(RowsOf(cid), FALSE) :
                returned' = Some(MessagesOf(rows))
    /\ UNCHANGED << memoryframe, heap, emitted >>

\* get_recent_messages(conversation_id, count)
GetRecentMessages ==
    /\ heap # << >>
    /\ \E cid \in StoreConversations, count \in 1..MaxRows :
          /\ request' = Some(StoreCall("get_recent_messages", cid, count))
          /\ \E rows \in OrderByTimestamp(RowsOf(cid), TRUE) :
                returned' = Some(MessagesOf(Reversed(Limit(rows, count))))
    /\ UNCHANGED << memoryframe, heap, emitted >>

NextMemory ==
    \/ ClockTicks
    \/ AddMessage
    \/ GetMessages
    \/ GetRecentMessages

SpecMemory == InitMemory /\ [][NextMemory]_vars

\* the messages of conversation cid in the order add_message appended them
Appended(cid) == SelectSeq(heap, LAMBDA m : m.conversation_id = cid)

\* the last count elements of a sequence
LastOf(s, count) == SubSeq(s, IF count < Len(s) THEN Len(s) - count + 1 ELSE 1, Len(s))

(* C37: get_messages returns the messages of a conversation in the order   *)
(* in which add_message appended them, and get_recent_messages(count)      *)
(* returns the last `count` appended messages in that same order,          *)
(* including when several messages were appended with the same timestamp.  *)
C37_Claim ==
    /\ (request # None /\ request[1].method = "get_messages") =>
          returned[1] = Appended(request[1].conversation_id)
    /\ (request # None /\ request[1].method = "get_recent_messages") =>
          returned[1] = LastOf(Appended(request[1].conversation_id), request[1].count)


(* --------------------- FileOpsTool and its path test ------------------- *)
(* A path is a sequence of tokens: the separator "/" is one token and a    *)
(* name is one or more tokens ("user" followed by "2" is the name user2),  *)
(* so that str.startswith is the prefix relation on tokens.  The trace     *)
(* keeps one "fs" entry per filesystem access, with the absolute path      *)
(* reached, and one "tool_result" entry per call.                          *)

\* most file operations called
MaxFileCalls == 2

\* Path.home()
HOME == << "/", "home", "/", "user" >>

\* FileOpsTool.allowed_paths as __init__ sets it by default
allowed_paths ==
    { HOME, HOME \o << "/", "Documents" >>, HOME \o << "/", "Desktop" >>,
      HOME \o << "/", ".gemini" >> }

\* os.getcwd() of the server process
Getcwd == << "/", "srv" >>

\* the values of the "path" argument: inside the home directory, the home
\* directory itself, a sibling whose name starts with its name, elsewhere,
\* through "..", relative, and "" (the default of args.get)
PathArgs ==
    { HOME \o << "/", "f" >>, HOME, HOME \o << "/", "Documents", "/", "f" >>,
      << "/", "home", "/", "user", "2", "/", "f" >>,
      << "/", "etc", "/", "f" >>,
      HOME \o << "/", "..", "/", "..", "/", "etc", "/", "f" >>,
      HOME \o << "/", "Documents", "/", "..", "/", "f" >>,
      << "f" >>, << >> }

RECURSIVE ComponentsFrom(_, _, _, _)
\* the names between the separators of text from position i on
ComponentsFrom(text, i, cur, acc) ==
    IF i > Len(text)
    THEN IF cur = << >> THEN acc ELSE Append(acc, cur)
    ELSE IF text[i] = "/"
         THEN ComponentsFrom(text, i + 1, << >>,
                             IF cur = << >> THEN acc ELSE Append(acc, cur))
         ELSE ComponentsFrom(text, i + 1, Append(cur, text[i]), acc)

\* the names a path is made of
Components(path) == ComponentsFrom(path, 1, << >>, << >>)

RECURSIVE Resolve(_, _)
\* os.path.normpath on the names: "." is dropped and ".." removes the name
\* before it (nothing at the root)
Resolve(names, acc) ==
    IF names = << >> THEN acc
    ELSE IF Head(names) = << "." >> THEN Resolve(Tail(names), acc)
    ELSE IF Head(names) = << ".." >>
         THEN Resolve(Tail(names),
                      IF acc = << >> THEN acc ELSE SubSeq(acc, 1, Len(acc) - 1))
    ELSE Resolve(Tail(names), Append(acc, Head(names)))

\* os.path.abspath(path): the path is joined to the working directory
\* unless it is absolute, then normalised
Abspath(path) ==
    LET joined == IF path # << >> /\ path[1] = "/" THEN path
                  ELSE Getcwd \o << "/" >> \o path
        names  == Resolve(Components(joined), << >>)
    IN  IF names = << >> THEN << "/" >>
        ELSE Concat([k \in DOMAIN names |-> << "/" >> \o names[k]])

\* _is_path_allowed(path)
IsPathAllowed(path) ==
    \E allowed \in allowed_paths : IsPrefix(allowed, Abspath(path))

\* the operations of FileOpsTool the agent calls
FileOps == { "read_file", "write_file", "list_directory" }

InitFiles ==
    /\ max_iterations = 1
    /\ status = "idle"
    /\ conversation = << >>
    /\ pc = "idle"
    /\ messages = << >>
    /\ iteration = 0
    /\ full_response = << >>
    /\ current_response = << >>
    /\ tool_calls = << >>
    /\ idx = 0
    /\ tool_results = << >>
    /\ heap = << >>
    /\ exception = None
    /\ emitted = 0
    /\ trace = << >>
    /\ OpsIdle
    /\ HandlerIdle
    /\ SessionsOpen
    /\ ProviderIdle

\* the variables the file operations do not touch
filesframe == << handler, sessions, max_iterations, status, conversation,
                 messages, iteration, full_response, current_response,
                 tool_calls, idx, tool_results, heap, exception, opsvars,
                 providervars >>

\* _execute_tool calls a file operation with a path: PermissionError is
\* raised before anything else and becomes the result, or the filesystem
\* is reached
FileOpCalled ==
    /\ pc = "idle"
    /\ emitted < MaxFileCalls
    /\ emitted' = emitted + 1
    /\ \E name \in FileOps, path \in PathArgs :
          LET tr == Append(trace, Entry("_execute_tool", name, path, emitted + 1))
          IN  IF IsPathAllowed(path)
              THEN /\ trace' = Append(tr, Entry("fs", name, Abspath(path), emitted + 1))
                   /\ pc' = "fs"
              ELSE /\ trace' = Append(tr, Entry("tool_result", name,
                                                ErrorResult(name, "PermissionError"),
                                                emitted + 1))
                   /\ pc' = "idle"
    /\ UNCHANGED filesframe

\* the operation returns and _execute_tool formats its value
FileOpReturns ==
    /\ pc = "fs"
    /\ trace' = Append(trace, Entry("tool_result", trace[Len(trace)].name,
                                    ToolOutput(trace[Len(trace)].name), emitted))
    /\ pc' = "idle"
    /\ UNCHANGED << filesframe, emitted >>

\* open, mkdir or iterdir raises (no such file, not a directory, ...)
FileOpRaises ==
    /\ pc = "fs"
    /\ trace' = Append(trace, Entry("tool_result", trace[Len(trace)].name,
                                    ErrorResult(trace[Len(trace)].name, "OSError"),
                                    emitted))
    /\ pc' = "idle"
    /\ UNCHANGED << filesframe, emitted >>

NextFiles ==
    \/ FileOpCalled
    \/ FileOpReturns
    \/ FileOpRaises

SpecFiles == InitFiles /\ [][NextFiles]_vars

\* the absolute path lies in the directory dir or below it
Inside(path, dir) == IsPrefix(Components(dir), Components(path))

(* C38: read_file, write_file and list_directory touch the filesystem only *)
(* for paths located inside one of the allowed directories: for any path   *)
(* outside every allowed directory (including a sibling whose name merely  *)
(* starts with an allowed directory's name) they raise PermissionError     *)
(* before any filesystem access, which the agent reports as an             *)
(* "Error executing" tool result.                                          *)
C38_Claim ==
    \A i \in DOMAIN trace :
        /\ trace[i].type = "fs" =>
              \E dir \in allowed_paths : Inside(trace[i].data, dir)
        /\ (/\ trace[i].type = "_execute_tool"
            /\ \A dir \in allowed_paths : ~ Inside(Abspath(trace[i].data), dir)
            /\ i < Len(trace))
           => /\ trace[i + 1].type = "tool_result"
              /\ trace[i + 1].data = ErrorResult(trace[i].name, "PermissionError")

====
